---- MODULE Spec2Model ----
(***************************************************************************)
(* A model of the roadmap tool: the text parser (parser.ts), the           *)
(* expression evaluator and resolver (parser.ts), the serialiser, the row  *)
(* packing and layout of the renderers (renderer.ts) and the diagram       *)
(* export (Tutorial.tsx).  Strings are sequences of one-character          *)
(* strings, numbers are exact rationals extended with the IEEE specials.   *)
(***************************************************************************)
EXTENDS Integers, Sequences, FiniteSets, TLC

VARIABLES
    items,      \* renderer.ts: the items handed to the row packing
    packed,     \* renderer.ts: the result of assignItemRows
    rowCount,   \* renderer.ts: the result of calculateItemRows
    previewPacked, \* renderer.ts: the result of assignItemRows of InteractiveSVGPreview
    exportPacked,  \* Tutorial.tsx: the result of assignRows
    timePeriods,\* parser.ts: data.timePeriods, the declared periods
    expr,       \* parser.ts: the expression handed to evaluateExpression
    evalResult, \* parser.ts: the number evaluateExpression returned
    data,       \* parser.ts: the RoadmapData handed to resolveRoadmap
    resolved,   \* parser.ts: the ResolvedRoadmap that resolveRoadmap returned
    text,       \* parser.ts: the input of parseRoadmapText, as its lines
    lineIdx,    \* parser.ts: the number of lines the for loop has processed
    swimlanes,  \* parser.ts: const swimlanes
    title,      \* parser.ts: let title
    currentSwimlane, \* parser.ts: the place of currentSwimlane in swimlanes, 0 for null
    parsingSection,  \* parser.ts: let parsingSection
    itemCounter,\* parser.ts: let itemCounter
    parsePc,    \* parser.ts: "loop" inside parseRoadmapText, "done" after its return
    palette,    \* App.tsx: the custom palette handed to resolveRoadmap, empty for none
    roadmap,    \* renderer.ts, Tutorial.tsx: the ResolvedRoadmap handed to the renderers
    options,    \* renderer.ts: the Partial<RenderOptions> handed to the renderers
    svg,        \* renderer.ts: the geometry renderToSVG wrote
    preview,    \* renderer.ts: swimlaneHeights and itemPositions of InteractiveSVGPreview
    drawio,     \* Tutorial.tsx: the cells generateDrawioXml wrote
    dragState,  \* renderer.ts: the dragState of InteractiveSVGPreview
    dropTarget, \* renderer.ts: the dropTarget of InteractiveSVGPreview
    mouseEvent, \* renderer.ts: the mouse handler that ran last
    callback,   \* renderer.ts: the call of onItemMove or onItemResize that handler made
    handlers,   \* renderer.ts: the callbacks among the props of InteractiveSVGPreview
    called      \* the calls that have returned

packVars == <<items, packed, rowCount, previewPacked, exportPacked>>
evalVars == <<timePeriods, expr, evalResult>>
resolveVars == <<data, resolved, palette>>
renderVars == <<roadmap, options, svg, preview, drawio>>
dragVars == <<dragState, dropTarget, mouseEvent, callback, handlers>>
parseVars == <<text, lineIdx, swimlanes, title, currentSwimlane, parsingSection,
               itemCounter, parsePc>>
vars == <<items, packed, rowCount, previewPacked, exportPacked, timePeriods, expr, evalResult, data, resolved, palette,
          text, lineIdx, swimlanes, title, currentSwimlane, parsingSection,
          itemCounter, parsePc, roadmap, options, svg, preview, drawio, called,
          dragState, dropTarget, mouseEvent, callback, handlers>>

(***************************************************************************)
(* Bounds of the model.                                                    *)
(***************************************************************************)
MaxItems == 3
MaxIndex == 3
MaxExprLen == 3
MaxDocItems == 2
MaxLanes == 2
MaxLines == 3

(***************************************************************************)
(* Numbers.  A JavaScript number is modelled as an exact rational n/d      *)
(* (d > 0, lowest terms) with a flag for the negative zero, or as one of   *)
(* the IEEE specials: +Infinity, -Infinity, NaN.  "irr" stands for the     *)
(* finite irrational result of a non-integer power.  Rounding and overflow *)
(* of the 64-bit format are not modelled.                                  *)
(***************************************************************************)
Abs(n) == IF n < 0 THEN -n ELSE n

RECURSIVE Gcd(_, _)
Gcd(a, b) == IF b = 0 THEN a ELSE Gcd(b, a % b)

Fin(n, d) ==
    LET g == Gcd(Abs(n), Abs(d))
        sgn == IF d < 0 THEN -1 ELSE 1
    IN  [k |-> "fin", n |-> (sgn * n) \div g, d |-> Abs(d) \div g, nz |-> FALSE]

Whole(n) == Fin(n, 1)
NegZero == [k |-> "fin", n |-> 0, d |-> 1, nz |-> TRUE]
SignedZero(sgn) == IF sgn < 0 THEN NegZero ELSE Whole(0)
Inf(sgn) == [k |-> "inf", n |-> sgn, d |-> 0, nz |-> FALSE]
NaN == [k |-> "nan", n |-> 0, d |-> 0, nz |-> FALSE]
Irr == [k |-> "irr", n |-> 0, d |-> 0, nz |-> FALSE]

IsNaN(x) == x.k = "nan"
IsFinite(x) == x.k \in {"fin", "irr"}
IsZero(x) == x.k = "fin" /\ x.n = 0
SignOf(x) == IF x.n < 0 \/ (IsZero(x) /\ x.nz) THEN -1 ELSE 1

Neg(x) ==
    CASE x.k = "fin" -> IF x.n = 0 THEN SignedZero(-SignOf(x)) ELSE Fin(-x.n, x.d)
      [] x.k = "inf" -> Inf(-x.n)
      [] OTHER -> x

Add(x, y) ==
    CASE IsNaN(x) \/ IsNaN(y) -> NaN
      [] x.k = "inf" /\ y.k = "inf" -> IF x.n = y.n THEN x ELSE NaN
      [] x.k = "inf" -> x
      [] y.k = "inf" -> y
      [] x.k = "irr" \/ y.k = "irr" -> Irr
      [] OTHER ->
           LET n == x.n * y.d + y.n * x.d
           IN  IF n = 0
               THEN (IF IsZero(x) /\ IsZero(y) /\ x.nz /\ y.nz THEN NegZero ELSE Whole(0))
               ELSE Fin(n, x.d * y.d)

Sub(x, y) == Add(x, Neg(y))

Mul(x, y) ==
    CASE IsNaN(x) \/ IsNaN(y) -> NaN
      [] x.k = "inf" \/ y.k = "inf" ->
           IF IsZero(x) \/ IsZero(y) THEN NaN ELSE Inf(SignOf(x) * SignOf(y))
      [] IsZero(x) \/ IsZero(y) -> SignedZero(SignOf(x) * SignOf(y))
      [] x.k = "irr" \/ y.k = "irr" -> Irr
      [] OTHER -> Fin(x.n * y.n, x.d * y.d)

Div(x, y) ==
    CASE IsNaN(x) \/ IsNaN(y) -> NaN
      [] x.k = "inf" -> IF y.k = "inf" THEN NaN ELSE Inf(SignOf(x) * SignOf(y))
      [] y.k = "inf" -> SignedZero(SignOf(x) * SignOf(y))
      [] IsZero(y) -> IF IsZero(x) THEN NaN ELSE Inf(SignOf(x) * SignOf(y))
      [] IsZero(x) -> SignedZero(SignOf(x) * SignOf(y))
      [] x.k = "irr" \/ y.k = "irr" -> Irr
      [] OTHER -> Fin(x.n * y.d, x.d * y.n)

RECURSIVE IntPow(_, _)
IntPow(x, e) == IF e = 0 THEN Whole(1) ELSE Mul(x, IntPow(x, e - 1))

\* x < y, x <= y, x = y as JavaScript compares numbers: false with a NaN,
\* and the two zeros are equal.
NumLt(x, y) ==
    CASE IsNaN(x) \/ IsNaN(y) -> FALSE
      [] x.k = "irr" \/ y.k = "irr" -> FALSE
      [] x.k = "inf" -> x.n < 0 /\ ~(y.k = "inf" /\ y.n < 0)
      [] y.k = "inf" -> y.n > 0
      [] OTHER -> x.n * y.d < y.n * x.d

NumEq(x, y) ==
    CASE IsNaN(x) \/ IsNaN(y) -> FALSE
      [] x.k = "irr" \/ y.k = "irr" -> FALSE
      [] x.k = "inf" \/ y.k = "inf" -> x.k = y.k /\ x.n = y.n
      [] OTHER -> x.n * y.d = y.n * x.d


\* Number::exponentiate
Pow(x, y) ==
    LET integer == y.k = "fin" /\ y.d = 1
        odd == integer /\ y.n % 2 = 1
        one == Whole(1)
        absx == IF SignOf(x) < 0 THEN Neg(x) ELSE x
    IN  CASE IsNaN(y) -> NaN
          [] IsZero(y) -> one
          [] IsNaN(x) -> NaN
          [] x.k = "irr" \/ y.k = "irr" -> Irr
          [] x.k = "inf" ->
               IF SignOf(y) > 0
               THEN (IF x.n < 0 /\ odd THEN Inf(-1) ELSE Inf(1))
               ELSE (IF x.n < 0 /\ odd THEN NegZero ELSE Whole(0))
          [] IsZero(x) ->
               IF SignOf(y) > 0
               THEN (IF x.nz /\ odd THEN NegZero ELSE Whole(0))
               ELSE (IF x.nz /\ odd THEN Inf(-1) ELSE Inf(1))
          [] y.k = "inf" ->
               IF NumEq(absx, one) THEN NaN
               ELSE IF NumLt(one, absx) = (y.n > 0) THEN Inf(1) ELSE Whole(0)
          [] integer ->
               IF y.n > 0 THEN IntPow(x, y.n) ELSE Div(one, IntPow(x, -y.n))
          [] x.n < 0 -> NaN
          [] NumEq(x, one) -> one
          [] OTHER -> Irr

(***************************************************************************)
(* Strings are sequences of characters.                                    *)
(***************************************************************************)
Digits == <<"0", "1", "2", "3", "4", "5", "6", "7", "8", "9">>

IndexIn(seq, c) == CHOOSE i \in 1..Len(seq) : seq[i] = c
IsIn(seq, c) == \E i \in 1..Len(seq) : seq[i] = c
IsDigit(c) == IsIn(Digits, c)
DigitVal(c) == IndexIn(Digits, c) - 1

\* String.prototype.toLowerCase
LowerChar(c) ==
    LET Upper == <<"A", "B", "C", "D", "E", "F", "G", "H", "I", "J", "K", "L", "M",
                   "N", "O", "P", "Q", "R", "S", "T", "U", "V", "W", "X", "Y", "Z">>
        Lower == <<"a", "b", "c", "d", "e", "f", "g", "h", "i", "j", "k", "l", "m",
                   "n", "o", "p", "q", "r", "s", "t", "u", "v", "w", "x", "y", "z">>
    IN  IF IsIn(Upper, c) THEN Lower[IndexIn(Upper, c)] ELSE c
toLowerCase(s) == [i \in 1..Len(s) |-> LowerChar(s[i])]

\* s.startsWith(p), s.slice(n)
startsWith(s, p) == Len(s) >= Len(p) /\ SubSeq(s, 1, Len(p)) = p
slice(s, n) == SubSeq(s, n + 1, Len(s))
StartsAt(s, i, p) == i + Len(p) - 1 <= Len(s) /\ SubSeq(s, i, i + Len(p) - 1) = p

\* Number.prototype.toString of a non-negative integer
RECURSIVE IntToStr(_)
IntToStr(n) == IF n < 10 THEN <<Digits[n + 1]>> ELSE IntToStr(n \div 10) \o <<Digits[(n % 10) + 1]>>

\* The end of the run of decimal digits that starts at position i (i - 1
\* when s[i] is no digit).
RECURSIVE DigitsEnd(_, _)
DigitsEnd(s, i) == IF i <= Len(s) /\ IsDigit(s[i]) THEN DigitsEnd(s, i + 1) ELSE i - 1

\* The value of the digits s[i..j] in the given base.
RECURSIVE DigitsVal(_, _, _, _)
DigitsVal(s, i, j, base) ==
    IF j < i THEN 0 ELSE DigitsVal(s, i, j - 1, base) * base + DigitVal(s[j])

RECURSIVE Pow10(_)
Pow10(n) == IF n = 0 THEN 1 ELSE 10 * Pow10(n - 1)

\* The decimal literal with integer digits s[i..j] and fraction digits s[f..g].
DecimalVal(s, i, j, f, g) ==
    Fin(DigitsVal(s, i, j, 10) * Pow10(g - f + 1) + DigitsVal(s, f, g, 10), Pow10(g - f + 1))

(***************************************************************************)
(* parseFloat: the longest prefix of the trimmed string that is a decimal  *)
(* literal (sign, digits, fraction, exponent, or Infinity), NaN when there *)
(* is none.                                                                *)
(***************************************************************************)
At(s, i) == IF i >= 1 /\ i <= Len(s) THEN s[i] ELSE ""

RECURSIVE SkipSpaces(_, _)
SkipSpaces(s, i) == IF At(s, i) = " " THEN SkipSpaces(s, i + 1) ELSE i


parseFloat(s) ==
    LET i0 == SkipSpaces(s, 1)
        signed == At(s, i0) \in {"+", "-"}
        j == IF signed THEN i0 + 1 ELSE i0
        ie == DigitsEnd(s, j)
        dot == At(s, ie + 1) = "."
        fe == IF dot THEN DigitsEnd(s, ie + 2) ELSE ie
        nDigits == (ie - j + 1) + (IF dot THEN fe - (ie + 1) ELSE 0)
        mant == IF dot THEN DecimalVal(s, j, ie, ie + 2, fe) ELSE DecimalVal(s, j, ie, 1, 0)
        x0 == fe + 1
        xsigned == At(s, x0 + 1) \in {"+", "-"}
        x1 == IF xsigned THEN x0 + 2 ELSE x0 + 1
        xe == DigitsEnd(s, x1)
        hasExp == At(s, x0) \in {"e", "E"} /\ xe >= x1
        scale == Whole(Pow10(DigitsVal(s, x1, xe, 10)))
        abs == IF ~hasExp THEN mant
               ELSE IF xsigned /\ At(s, x0 + 1) = "-" THEN Div(mant, scale)
               ELSE Mul(mant, scale)
        pos == IF StartsAt(s, j, <<"I", "n", "f", "i", "n", "i", "t", "y">>) THEN Inf(1)
               ELSE IF nDigits = 0 THEN NaN
               ELSE abs
    IN  IF At(s, i0) = "-" THEN Neg(pos) ELSE pos

(***************************************************************************)
(* The period map of resolveRoadmap and the substitution of period names.  *)
(***************************************************************************)
\* p.replace(/\s+/g, "_"): every run of spaces becomes one underscore.
RECURSIVE SpacesToUnderscore(_)
SpacesToUnderscore(s) ==
    IF s = <<>> THEN <<>>
    ELSE IF Head(s) = " "
         THEN <<"_">> \o SpacesToUnderscore(SubSeq(s, SkipSpaces(s, 1), Len(s)))
         ELSE <<Head(s)>> \o SpacesToUnderscore(Tail(s))

\* timePeriods.push({ id: period.replace(/\s+/g, "_"), label: period,
\*                    index: timePeriods.length })
MakePeriod(label, index) ==
    [id |-> SpacesToUnderscore(label), label |-> label, index |-> index]

PeriodsOf(labels) == [i \in 1..Len(labels) |-> MakePeriod(labels[i], i - 1)]

\* Map.prototype.set: a new key goes to the end, a known key keeps its place
\* and takes the new value.
MapSet(map, key, val) ==
    IF \E i \in 1..Len(map) : map[i].name = key
    THEN [i \in 1..Len(map) |->
             IF map[i].name = key THEN [name |-> key, index |-> val] ELSE map[i]]
    ELSE Append(map, [name |-> key, index |-> val])

\* data.timePeriods.forEach((p, i) => { set(p.id.toLowerCase(), i);
\* set(p.label.toLowerCase(), i) })
RECURSIVE BuildPeriodMap(_, _)
BuildPeriodMap(periods, n) ==
    IF n = 0 THEN <<>>
    ELSE MapSet(MapSet(BuildPeriodMap(periods, n - 1),
                       toLowerCase(periods[n].id), n - 1),
                toLowerCase(periods[n].label), n - 1)

periodMapOf(periods) == BuildPeriodMap(periods, Len(periods))

\* Array.from(periodMap.entries()).sort((a, b) => b[0].length - a[0].length)
LongerFirst(a, b) == Len(b.name) - Len(a.name) <= 0

RECURSIVE InsertByLength(_, _)
InsertByLength(sorted, x) ==
    IF sorted = <<>> THEN <<x>>
    ELSE LET last == sorted[Len(sorted)]
         IN  IF LongerFirst(last, x)
             THEN Append(sorted, x)
             ELSE Append(InsertByLength(SubSeq(sorted, 1, Len(sorted) - 1), x), last)

RECURSIVE SortByLength(_)
SortByLength(map) ==
    IF map = <<>> THEN <<>>
    ELSE InsertByLength(SortByLength(SubSeq(map, 1, Len(map) - 1)), map[Len(map)])

\* evaluated.replace(new RegExp(escapeRegex(name), "gi"), rep): every
\* occurrence, left to right, without overlap.  The text and the name are
\* both in lower case already.
RECURSIVE ReplaceAll(_, _, _)
ReplaceAll(s, name, rep) ==
    IF s = <<>> THEN <<>>
    ELSE IF startsWith(s, name)
         THEN rep \o ReplaceAll(slice(s, Len(name)), name, rep)
         ELSE <<Head(s)>> \o ReplaceAll(Tail(s), name, rep)

\* The for loop over the sorted period names.
RECURSIVE Substitute(_, _)
Substitute(s, sortedPeriods) ==
    IF sortedPeriods = <<>> THEN s
    ELSE Substitute(ReplaceAll(s, Head(sortedPeriods).name, IntToStr(Head(sortedPeriods).index)),
                    Tail(sortedPeriods))

\* A sanitizer that deletes nothing.
sanitizeNothing(s) == s

\* evaluated.replace(/[^0-9+\-*/().]/g, "")
sanitize(s) ==
    LET IsSafeChar(c) == IsDigit(c) \/ c \in {"+", "-", "*", "/", "(", ")", "."}
    IN  SelectSeq(s, IsSafeChar)

(***************************************************************************)
(* new Function(`return ${sanitized}`)(): the JavaScript expression        *)
(* grammar over the characters that pass the sanitizer.  A result is       *)
(* [ok, v, i]: ok is FALSE when the text does not parse or its evaluation  *)
(* throws (a call of a number); v is the value; i is the next position.    *)
(* A regular expression literal is an object, and every operator here      *)
(* turns it into NaN or into a string that is no number either, so its     *)
(* value is NaN.                                                           *)
(***************************************************************************)
Fail == [ok |-> FALSE, v |-> NaN, i |-> 0]
Ok(v, i) == [ok |-> TRUE, v |-> v, i |-> i]

\* The position of the "*/" that ends a block comment, 0 when there is none.
RECURSIVE CommentEnd(_, _)
CommentEnd(s, i) ==
    IF i >= Len(s) THEN 0
    ELSE IF s[i] = "*" /\ s[i + 1] = "/" THEN i
    ELSE CommentEnd(s, i + 1)

\* Comments before a token: "//" runs to the end of the text, "/*" to the
\* next "*/"; -1 when a block comment does not end.
RECURSIVE Skip(_, _)
Skip(s, i) ==
    IF StartsAt(s, i, <<"/", "/">>) THEN Len(s) + 1
    ELSE IF StartsAt(s, i, <<"/", "*">>)
         THEN LET e == CommentEnd(s, i + 2)
              IN  IF e = 0 THEN -1 ELSE Skip(s, e + 2)
    ELSE i

\* A decimal literal, or a legacy octal literal (a leading 0 before digits
\* 0-7 only; the function body is not strict code).
NumericLiteral(s, i) ==
    IF s[i] = "."
    THEN LET fe == DigitsEnd(s, i + 1)
         IN  IF fe < i + 1 THEN Fail ELSE Ok(DecimalVal(s, 1, 0, i + 1, fe), fe + 1)
    ELSE LET ie == DigitsEnd(s, i)
             octal == ie > i /\ s[i] = "0" /\ \A k \in i..ie : DigitVal(s[k]) <= 7
         IN  IF octal
             THEN (IF At(s, ie + 1) = "." THEN Fail
                   ELSE Ok(Whole(DigitsVal(s, i, ie, 8)), ie + 1))
             ELSE IF At(s, ie + 1) = "."
                  THEN LET fe == DigitsEnd(s, ie + 2)
                       IN  Ok(DecimalVal(s, i, ie, ie + 2, fe), fe + 1)
                  ELSE Ok(Whole(DigitsVal(s, i, ie, 10)), ie + 1)

\* The pattern of a regular expression literal: groups balance and every
\* quantifier follows an atom.
RECURSIVE PatternOk(_, _, _, _)
PatternOk(b, i, depth, atom) ==
    IF i > Len(b) THEN depth = 0
    ELSE CASE b[i] = "(" -> PatternOk(b, i + 1, depth + 1, FALSE)
           [] b[i] = ")" -> depth > 0 /\ PatternOk(b, i + 1, depth - 1, TRUE)
           [] b[i] \in {"*", "+"} -> atom /\ PatternOk(b, i + 1, depth, FALSE)
           [] OTHER -> PatternOk(b, i + 1, depth, TRUE)

RECURSIVE SlashAfter(_, _)
SlashAfter(s, i) ==
    IF i > Len(s) THEN 0 ELSE IF s[i] = "/" THEN i ELSE SlashAfter(s, i + 1)

\* "/" where an operand is expected: /body/ with no flags (a digit behind
\* the closing "/" would be an invalid flag).
RegexLiteral(s, i) ==
    LET c == SlashAfter(s, i + 1)
    IN  IF c = 0 \/ IsDigit(At(s, c + 1)) THEN Fail
        ELSE IF ~PatternOk(SubSeq(s, i + 1, c - 1), 1, 0, FALSE) THEN Fail
        ELSE Ok(NaN, c + 1)

RECURSIVE ParseAdd(_, _)
RECURSIVE AddLoop(_, _)
RECURSIVE AddStep(_, _, _, _)
RECURSIVE ParseMul(_, _)
RECURSIVE MulLoop(_, _)
RECURSIVE MulStep(_, _, _, _)
RECURSIVE ParseExp(_, _)
RECURSIVE ExpOf(_, _)
RECURSIVE ParseUnary(_, _)
RECURSIVE ParsePostfix(_, _)
RECURSIVE ParsePrimary(_, _)

\* The ")" behind the expression r of a parenthesised expression.
Parenthesized(s, r) ==
    LET ParenEnd(j) == IF j > 0 /\ At(s, j) = ")" THEN Ok(r.v, j + 1) ELSE Fail
    IN  IF r.ok THEN ParenEnd(Skip(s, r.i)) ELSE Fail

\* PrimaryExpression: a literal, a parenthesised expression, a regex.
ParsePrimary(s, i0) ==
    LET PrimaryAt(i) ==
            CASE i < 0 -> Fail
              [] At(s, i) = "(" -> Parenthesized(s, ParseAdd(s, i + 1))
              [] IsDigit(At(s, i)) \/ At(s, i) = "." -> NumericLiteral(s, i)
              [] At(s, i) = "/" -> RegexLiteral(s, i)
              [] OTHER -> Fail
    IN  PrimaryAt(Skip(s, i0))

\* A primary followed by "(" is a call of something that is no function
\* (TypeError); followed by ++ or -- it is an update of something that is no
\* reference (SyntaxError).
PostfixOf(s, p) ==
    LET PostfixEnd(j) ==
            IF j < 0 THEN Fail
            ELSE IF At(s, j) = "(" \/ StartsAt(s, j, <<"+", "+">>)
                        \/ StartsAt(s, j, <<"-", "-">>)
                 THEN Fail
            ELSE Ok(p.v, j)
    IN  IF p.ok THEN PostfixEnd(Skip(s, p.i)) ELSE Fail

ParsePostfix(s, i) == PostfixOf(s, ParsePrimary(s, i))

\* UnaryExpression: + and - before a unary expression; ++ and -- are the
\* update operators and fail on a number.
ParseUnary(s, i0) ==
    LET Signed(c, r) ==
            IF ~r.ok THEN Fail ELSE Ok(IF c = "-" THEN Neg(r.v) ELSE r.v, r.i)
        UnaryAt(i) ==
            IF i < 0 THEN Fail
            ELSE IF At(s, i) \in {"+", "-"}
                 THEN (IF At(s, i + 1) = At(s, i) THEN Fail
                       ELSE Signed(At(s, i), ParseUnary(s, i + 1)))
            ELSE ParsePostfix(s, i)
    IN  UnaryAt(Skip(s, i0))

\* A unary expression may not be the left operand of "**".
UnaryOperand(s, r) ==
    LET OperandEnd(j) ==
            IF j < 0 \/ StartsAt(s, j, <<"*", "*">>) THEN Fail ELSE Ok(r.v, j)
    IN  IF r.ok THEN OperandEnd(Skip(s, r.i)) ELSE Fail

\* ExponentiationExpression: right associative.
ExpOf(s, p) ==
    LET Raised(q) == IF q.ok THEN Ok(Pow(p.v, q.v), q.i) ELSE Fail
    IN  IF ~p.ok THEN Fail
        ELSE IF StartsAt(s, p.i, <<"*", "*">>) THEN Raised(ParseExp(s, p.i + 2))
        ELSE p

ParseExp(s, i0) ==
    LET ExpAt(i) ==
            IF i < 0 THEN Fail
            ELSE IF At(s, i) \in {"+", "-"} THEN UnaryOperand(s, ParseUnary(s, i))
            ELSE ExpOf(s, ParsePostfix(s, i))
    IN  ExpAt(Skip(s, i0))

\* MultiplicativeExpression: * and /, left associative.
MulStep(s, acc, c, r) ==
    IF ~r.ok THEN Fail
    ELSE MulLoop(s, Ok(IF c = "*" THEN Mul(acc.v, r.v) ELSE Div(acc.v, r.v), r.i))

MulLoop(s, acc) ==
    LET MulLoopAt(j) ==
            IF j < 0 THEN Fail
            ELSE IF At(s, j) \in {"*", "/"}
                 THEN MulStep(s, acc, At(s, j), ParseExp(s, j + 1))
            ELSE Ok(acc.v, j)
    IN  MulLoopAt(Skip(s, acc.i))

MulStart(s, r) == IF r.ok THEN MulLoop(s, r) ELSE Fail

ParseMul(s, i) == MulStart(s, ParseExp(s, i))

\* AdditiveExpression: + and -, left associative.
AddStep(s, acc, c, r) ==
    IF ~r.ok THEN Fail
    ELSE AddLoop(s, Ok(IF c = "+" THEN Add(acc.v, r.v) ELSE Sub(acc.v, r.v), r.i))

AddLoop(s, acc) ==
    LET AddLoopAt(j) ==
            IF j < 0 THEN Fail
            ELSE IF At(s, j) \in {"+", "-"}
                 THEN (IF At(s, j + 1) = At(s, j) THEN Fail
                       ELSE AddStep(s, acc, At(s, j), ParseMul(s, j + 1)))
            ELSE Ok(acc.v, j)
    IN  AddLoopAt(Skip(s, acc.i))

AddStart(s, r) == IF r.ok THEN AddLoop(s, r) ELSE Fail

ParseAdd(s, i) == AddStart(s, ParseMul(s, i))

\* The value of the function body "return <s>": ok only when the whole text
\* is one expression.
EvalJS(s) ==
    LET WholeText(r) == IF r.ok /\ r.i = Len(s) + 1 THEN r ELSE Fail
    IN  WholeText(ParseAdd(s, 1))

(***************************************************************************)
(* evaluateExpression (parser.ts).                                         *)
(***************************************************************************)
\* !isNaN(simpleNum)
IsSimpleNumber(simpleNum) == ~IsNaN(simpleNum)

\* typeof result === "number" && !isNaN(result)
IsNumberResult(r) == r.ok /\ ~IsNaN(r.v)

Sanitized(ex, periodMap) ==
    sanitize(Substitute(toLowerCase(ex), SortByLength(periodMap)))

\* return typeof result === "number" && !isNaN(result) ? result : 0, and
\* the catch that returns 0
ResultOrZero(result) == IF IsNumberResult(result) THEN result.v ELSE Whole(0)

\* if (sanitized.length === 0) return 0, then the evaluation
EvaluateSanitized(sanitized) ==
    IF Len(sanitized) = 0 THEN Whole(0) ELSE ResultOrZero(EvalJS(sanitized))

\* if (!isNaN(simpleNum)) return simpleNum, then the substitution
SimpleOrEvaluated(simpleNum, ex, periodMap) ==
    IF IsSimpleNumber(simpleNum) THEN simpleNum
    ELSE EvaluateSanitized(Sanitized(ex, periodMap))

evaluateExpression(ex, periodMap) ==
    IF ex = <<>> THEN Whole(0)
    ELSE SimpleOrEvaluated(parseFloat(ex), ex, periodMap)

\* The value of an optional field that is absent.
Undefined == <<"undefined">>

(***************************************************************************)
(* String helpers of the parser.                                           *)
(***************************************************************************)
\* String.prototype.trim (the white space of the model is the space)
RECURSIVE TrimEnd(_)
TrimEnd(s) ==
    IF s # <<>> /\ s[Len(s)] = " " THEN TrimEnd(SubSeq(s, 1, Len(s) - 1)) ELSE s

trim(s) == TrimEnd(SubSeq(s, SkipSpaces(s, 1), Len(s)))

\* s.split(sep) for a one-character separator: always at least one part.
RECURSIVE Split(_, _)
Split(s, sep) ==
    IF \A i \in 1..Len(s) : s[i] # sep THEN <<s>>
    ELSE LET k == CHOOSE i \in 1..Len(s) : s[i] = sep /\ \A j \in 1..(i - 1) : s[j] # sep
         IN  <<SubSeq(s, 1, k - 1)>> \o Split(SubSeq(s, k + 1, Len(s)), sep)

\* parts.map((p) => p.trim())
TrimAll(parts) == [i \in 1..Len(parts) |-> trim(parts[i])]

NonEmpty(s) == Len(s) > 0

\* s.split(":")[1]?.trim(): the text between the first and the second
\* colon, undefined when there is no colon.
AfterColon(s) ==
    IF Len(Split(s, ":")) >= 2 THEN trim(Split(s, ":")[2]) ELSE Undefined

(***************************************************************************)
(* resolveRoadmap and resolveItem (parser.ts).                             *)
(***************************************************************************)
\* if (value): undefined and the empty string are false.
Truthy(str) == str # Undefined /\ str # <<>>

RepeatingColors ==
    << <<"#", "4", "2", "8", "5", "F", "4">>,
       <<"#", "E", "A", "4", "3", "3", "5">>,
       <<"#", "F", "B", "B", "C", "0", "4">>,
       <<"#", "3", "4", "A", "8", "5", "3">>,
       <<"#", "F", "F", "6", "D", "0", "1">>,
       <<"#", "4", "6", "B", "D", "C", "6">>,
       <<"#", "7", "B", "A", "A", "F", "7">>,
       <<"#", "F", "0", "7", "B", "7", "2">>,
       <<"#", "F", "C", "D", "0", "4", "F">>,
       <<"#", "5", "7", "B", "B", "8", "A">>,
       <<"#", "9", "E", "6", "9", "A", "F">>,
       <<"#", "F", "F", "8", "A", "8", "0">>,
       <<"#", "A", "7", "F", "F", "E", "B">>,
       <<"#", "F", "F", "D", "1", "8", "0">>,
       <<"#", "4", "2", "8", "5", "F", "4">> >>

COLORS ==
    << <<"#", "4", "2", "8", "5", "F", "4">>,
       <<"#", "E", "A", "4", "3", "3", "5">>,
       <<"#", "F", "B", "B", "C", "0", "4">>,
       <<"#", "3", "4", "A", "8", "5", "3">>,
       <<"#", "F", "F", "6", "D", "0", "1">>,
       <<"#", "4", "6", "B", "D", "C", "6">>,
       <<"#", "7", "B", "A", "A", "F", "7">>,
       <<"#", "F", "0", "7", "B", "7", "2">>,
       <<"#", "F", "C", "D", "0", "4", "F">>,
       <<"#", "5", "7", "B", "B", "8", "A">>,
       <<"#", "9", "E", "6", "9", "A", "F">>,
       <<"#", "F", "F", "8", "A", "8", "0">>,
       <<"#", "A", "7", "F", "F", "E", "B">>,
       <<"#", "F", "F", "D", "1", "8", "0">>,
       <<"#", "B", "3", "8", "8", "F", "F">> >>

\* endIndex <= startIndex
EndNotAfterStart(endIndex, startIndex) ==
    NumLt(endIndex, startIndex) \/ NumEq(endIndex, startIndex)

\* if (endIndex <= startIndex) endIndex = startIndex + 1
EnsureAfter(startIndex, endIndex) ==
    IF EndNotAfterStart(endIndex, startIndex) THEN Add(startIndex, Whole(1))
    ELSE endIndex

EndOfLengthFirst(item, periodMap, startIndex) ==
    IF Truthy(item.lengthExpression)
    THEN Add(startIndex, evaluateExpression(item.lengthExpression, periodMap))
    ELSE IF Truthy(item.endExpression)
         THEN evaluateExpression(item.endExpression, periodMap)
         ELSE Add(startIndex, Whole(1))

\* endIndex from the end expression, else from the length, else start + 1
EndOf(item, periodMap, startIndex) ==
    IF Truthy(item.endExpression)
    THEN evaluateExpression(item.endExpression, periodMap)
    ELSE IF Truthy(item.lengthExpression)
         THEN Add(startIndex, evaluateExpression(item.lengthExpression, periodMap))
         ELSE Add(startIndex, Whole(1))

ResolvedWith(item, periodMap, colorIndex, startIndex) ==
    [id |-> item.id,
     title |-> item.title,
     startIndex |-> startIndex,
     endIndex |-> EnsureAfter(startIndex, EndOf(item, periodMap, startIndex)),
     swimlane |-> item.swimlane,
     color |-> IF Truthy(item.color) THEN item.color
               ELSE COLORS[(colorIndex % Len(COLORS)) + 1]]

resolveItem(item, periodMap, colorIndex) ==
    ResolvedWith(item, periodMap, colorIndex,
                 evaluateExpression(item.startExpression, periodMap))

\* The number of items in the swimlanes before swimlane l: the value of
\* colorIndex when the map over the swimlanes reaches l.
ItemsBeforeReset(lanes, l) == 0

RECURSIVE ItemsBefore(_, _)
ItemsBefore(lanes, l) ==
    IF l <= 1 THEN 0 ELSE ItemsBefore(lanes, l - 1) + Len(lanes[l - 1].items)

resolveRoadmap(doc) ==
    LET periodMap == periodMapOf(doc.timePeriods)
    IN  [timePeriods |-> doc.timePeriods,
         swimlanes |->
             [l \in 1..Len(doc.swimlanes) |->
                 [id |-> doc.swimlanes[l].id,
                  label |-> doc.swimlanes[l].label,
                  items |->
                      [k \in 1..Len(doc.swimlanes[l].items) |->
                          resolveItem(doc.swimlanes[l].items[k], periodMap,
                                      ItemsBefore(doc.swimlanes, l) + k - 1)]]],
         title |-> doc.title]

\* resolveRoadmap with its second parameter, the palette a caller supplies:
\* an item without a color of its own takes palette[colorIndex % palette.length].
FirstOfPalette(pal, colorIndex) == pal[1]
PaletteColor(pal, colorIndex) == pal[(colorIndex % Len(pal)) + 1]

resolveRoadmapPalette(doc, pal) ==
    LET Recolored(builtIn) ==
            [builtIn EXCEPT !.swimlanes =
                [l \in 1..Len(doc.swimlanes) |->
                    [builtIn.swimlanes[l] EXCEPT !.items =
                        [k \in 1..Len(doc.swimlanes[l].items) |->
                            IF Truthy(doc.swimlanes[l].items[k].color)
                            THEN builtIn.swimlanes[l].items[k]
                            ELSE [builtIn.swimlanes[l].items[k] EXCEPT !.color =
                                     PaletteColor(pal, ItemsBefore(doc.swimlanes, l) + k - 1)]]]]]
    IN  Recolored(resolveRoadmap(doc))

(***************************************************************************)
(* parseItem and the branches of the loop of parseRoadmapText (parser.ts). *)
(***************************************************************************)
\* id: `swimlane-${swimlanes.length}` and id: `item-${index}`
\* An id that does not count the swimlanes.
SwimlaneIdOfFirst(n) == <<"s", "w", "i", "m", "l", "a", "n", "e", "-", "0">>
SwimlaneId(n) == <<"s", "w", "i", "m", "l", "a", "n", "e", "-">> \o IntToStr(n)
\* An id that does not count the items.
ItemIdOfFirst(n) == <<"i", "t", "e", "m", "-", "0">>
ItemId(n) == <<"i", "t", "e", "m", "-">> \o IntToStr(n)

\* The for loop of parseItem over parts[1..]: acc holds startExpression,
\* endExpression, lengthExpression and color.
RECURSIVE ItemFields(_, _, _)
ItemFields(parts, i, acc) ==
    IF i > Len(parts) THEN acc
    ELSE LET part == toLowerCase(parts[i])
             value == AfterColon(parts[i])
         IN  ItemFields(parts, i + 1,
                 CASE startsWith(part, <<"s", "t", "a", "r", "t", ":">>) ->
                        [acc EXCEPT !.startExpression =
                                        IF Truthy(value) THEN value ELSE <<>>]
                   [] startsWith(part, <<"e", "n", "d", ":">>) ->
                        [acc EXCEPT !.endExpression = value]
                   [] startsWith(part, <<"l", "e", "n", "g", "t", "h", ":">>) ->
                        [acc EXCEPT !.lengthExpression = value]
                   [] startsWith(part, <<"c", "o", "l", "o", "r", ":">>) ->
                        [acc EXCEPT !.color = value]
                   [] OTHER -> acc)

parseItem(str, index, swimlane) ==
    LET parts == TrimAll(Split(str, "|"))
        f == ItemFields(parts, 2,
                 [startExpression |-> <<>>, endExpression |-> Undefined,
                  lengthExpression |-> Undefined, color |-> Undefined])
    IN  [id |-> ItemId(index),
         title |-> parts[1],
         startExpression |-> IF f.startExpression = <<>> THEN <<"0">>
                             ELSE f.startExpression,
         endExpression |-> f.endExpression,
         lengthExpression |-> f.lengthExpression,
         swimlane |-> swimlane,
         color |-> f.color]

\* text.split("\n").map((l) => l.trim()).filter((l) => l.length > 0)
LinesOf(txt) == SelectSeq(TrimAll(txt), NonEmpty)

PeriodHeaders ==
    { <<"p", "e", "r", "i", "o", "d", "s">>,
      <<"t", "i", "m", "e", " ", "p", "e", "r", "i", "o", "d", "s">>,
      <<"t", "i", "m", "e", "l", "i", "n", "e">> }

SwimlanePrefixes ==
    { <<"s", "w", "i", "m", "l", "a", "n", "e", ":">>,
      <<"t", "e", "a", "m", ":">>,
      <<"l", "a", "n", "e", ":">> }

DefaultLabel == <<"D", "e", "f", "a", "u", "l", "t">>
DefaultSwimlaneId ==
    <<"s", "w", "i", "m", "l", "a", "n", "e", "-", "d", "e", "f", "a", "u", "l", "t">>

\* line.startsWith("# ") && !line.startsWith("## ")
IsTitleLine(line) ==
    startsWith(line, <<"#", " ">>) /\ ~startsWith(line, <<"#", "#", " ">>)

IsHeaderLine(line) == startsWith(line, <<"#", "#", " ">>)

\* const header = line.slice(3).trim().toLowerCase()
HeaderOf(line) == toLowerCase(trim(slice(line, 3)))

IsPeriodsHeader(line) == IsHeaderLine(line) /\ HeaderOf(line) \in PeriodHeaders

IsPrefixedHeader(line) ==
    /\ IsHeaderLine(line)
    /\ ~IsPeriodsHeader(line)
    /\ \E pre \in SwimlanePrefixes : startsWith(HeaderOf(line), pre)

\* line.slice(3).split(":")[1]?.trim() || "Default"
PrefixedLabel(line) ==
    IF Truthy(AfterColon(slice(line, 3))) THEN AfterColon(slice(line, 3))
    ELSE DefaultLabel

IsGenericHeader(line) ==
    /\ IsHeaderLine(line)
    /\ ~IsPeriodsHeader(line)
    /\ ~IsPrefixedHeader(line)
    /\ trim(slice(line, 3)) # <<>>

\* A line that one of the branches above has consumed with `continue`.
Consumed(line) ==
    IsTitleLine(line) \/ IsPeriodsHeader(line) \/ IsPrefixedHeader(line)
        \/ IsGenericHeader(line)

\* parsingSection === "periods" && !line.startsWith("#") && !line.startsWith("-")
IsPeriodLine(line, section) ==
    /\ ~Consumed(line)
    /\ section = "periods"
    /\ ~startsWith(line, <<"#">>)
    /\ ~startsWith(line, <<"-">>)

\* parsingSection === "swimlane" && line.startsWith("-")
ItemGuard(line, section) == section = "swimlane" /\ startsWith(line, <<"-">>)

IsItemLine(line, section) ==
    /\ ~Consumed(line)
    /\ ~IsPeriodLine(line, section)
    /\ ItemGuard(line, section)

\* line.split(",").map((p) => p.trim()).filter((p) => p.length > 0)
PeriodLabels(line) == SelectSeq(TrimAll(Split(line, ",")), NonEmpty)

\* index: timePeriods.length, for the k-th label of a line pushed behind
\* the periods declared so far.
IndexInLine(declared, k) == k - 1
NextIndex(declared, k) == declared + k - 1

\* for (const period of periods) timePeriods.push({ id, label, index })
PushPeriods(periods, labels) ==
    periods \o [k \in 1..Len(labels) |->
                   MakePeriod(labels[k], NextIndex(Len(periods), k))]

NoDefaultPeriods == <<>>

\* ["Q1", "Q2", "Q3", "Q4"].forEach((label, index) => timePeriods.push(...))
DefaultPeriods ==
    [i \in 1..4 |-> [id |-> <<"Q", Digits[i + 1]>>, label |-> <<"Q", Digits[i + 1]>>,
                     index |-> i - 1]]

NewSwimlane(id, label) == [id |-> id, label |-> label, items |-> <<>>]

(***************************************************************************)
(* roadmapDataToText (roadmapUtils.ts): the text of a document, as the     *)
(* lines that lines.join("\n").trim() holds.                               *)
(***************************************************************************)
RECURSIVE Join(_, _)
Join(parts, sep) ==
    IF Len(parts) = 0 THEN <<>>
    ELSE IF Len(parts) = 1 THEN parts[1]
    ELSE parts[1] \o sep \o Join(Tail(parts), sep)

\* if (item.lengthExpression) ... else if (item.endExpression) ...
LengthOrEnd(item) ==
    IF Truthy(item.lengthExpression) THEN <<" ", "|", " ", "l", "e", "n", "g", "t", "h", ":", " ">> \o item.lengthExpression
    ELSE IF Truthy(item.endExpression) THEN <<" ", "|", " ", "e", "n", "d", ":", " ">> \o item.endExpression
    ELSE <<>>

ItemLine(item) ==
    <<"-", " ">> \o item.title \o <<" ", "|", " ", "s", "t", "a", "r", "t", ":", " ">> \o item.startExpression
        \o LengthOrEnd(item)
        \o (IF Truthy(item.color) THEN <<" ", "|", " ", "c", "o", "l", "o", "r", ":", " ">> \o item.color ELSE <<>>)

SwimlaneLines(swimlane) ==
    << <<"#", "#", " ">> \o swimlane.label >>
        \o [k \in 1..Len(swimlane.items) |-> ItemLine(swimlane.items[k])]
        \o << <<>> >>

RECURSIVE AllSwimlaneLines(_)
AllSwimlaneLines(lanes) ==
    IF Len(lanes) = 0 THEN <<>>
    ELSE SwimlaneLines(lanes[1]) \o AllSwimlaneLines(Tail(lanes))

\* String.prototype.trim on the joined text: the empty lines at its end go,
\* and the blanks at the end of its last line (its first line begins with "#").
RECURSIVE TrimText(_)
TrimText(lines) ==
    IF Len(lines) = 0 THEN <<>>
    ELSE IF trim(lines[Len(lines)]) = <<>> THEN TrimText(SubSeq(lines, 1, Len(lines) - 1))
    ELSE [lines EXCEPT ![Len(lines)] = TrimEnd(@)]

roadmapDataToText(doc) ==
    TrimText(
        (IF Truthy(doc.title) THEN << <<"#", " ">> \o doc.title, <<>> >> ELSE <<>>)
        \o << <<"#", "#", " ", "P", "e", "r", "i", "o", "d", "s">>,
              Join([i \in 1..Len(doc.timePeriods) |-> doc.timePeriods[i].label], <<",", " ">>),
              <<>> >>
        \o AllSwimlaneLines(doc.swimlanes))

(***************************************************************************)
(***************************************************************************)
(* The values of the variables of a component that is not running.         *)
(***************************************************************************)
PackIdle ==
    /\ items = <<>>
    /\ packed = <<>>
    /\ rowCount = 0
    /\ previewPacked = <<>>
    /\ exportPacked = <<>>
EvalIdle == timePeriods = <<>> /\ expr = <<>> /\ evalResult = Whole(0)
NoDocument == [timePeriods |-> <<>>, swimlanes |-> <<>>, title |-> Undefined]
ResolveIdle == data = NoDocument /\ resolved = NoDocument /\ palette = <<>>
NotRendered == <<>>
RenderIdle ==
    /\ roadmap = NoDocument
    /\ options = <<>>
    /\ svg = NotRendered
    /\ preview = NotRendered
    /\ drawio = NotRendered
\* null, and a handler that called nothing.
Null == [null |-> TRUE]
IsNull(value) == "null" \in DOMAIN value
NoCall == [name |-> "none"]
DragIdle ==
    /\ dragState = Null
    /\ dropTarget = Null
    /\ mouseEvent = "none"
    /\ callback = NoCall
    /\ handlers = {}
ParseIdle ==
    /\ text = <<>> /\ lineIdx = 0 /\ swimlanes = <<>> /\ title = Undefined
    /\ currentSwimlane = 0 /\ parsingSection = "none" /\ itemCounter = 0
    /\ parsePc = "done"

(***************************************************************************)
(* The evaluator as a state machine: a period list and an expression are   *)
(* given, and evaluateExpression is called with the period map that        *)
(* resolveRoadmap builds.                                                  *)
(***************************************************************************)
\* The period lists of the model: the default quarters, one-letter names
\* with a name that contains the others, names that begin with a numeral,
\* names that differ
\* in case only, and a name with a space.
PeriodLabelLists ==
    { << <<"Q", "1">>, <<"Q", "2">>, <<"Q", "3">>, <<"Q", "4">> >>,
      << <<"a">>, <<"b">>, <<"a", "b">> >>,
      << <<"1", "H">>, <<"2", "H">> >>,
      << <<"a">>, <<"A">> >>,
      << <<"S", " ", "1">>, <<"S", " ", "2">> >> }

\* The characters of the expressions that are enumerated in full.
ExprChars == {"0", "2", "a", "b", " ", "+", "-", "*", "/", "(", ")", "."}

ShortExprs == UNION {[1..n -> ExprChars] : n \in 0..MaxExprLen}

\* Expressions of the documentation and of the examples.
NamedExprs ==
    { <<"Q", "1", "+", "(", "Q", "2", "-", "Q", "1", ")", "/", "2">>,
      <<"Q", "2", "-", "Q", "1">>,
      <<"Q", "2", "/", "Q", "1">>,
      <<"Q", "Q", "+", "1">>,
      <<"q", "3">>,
      <<"Q", "4">>,
      <<"1", ".", "5">>,
      <<"1", "+", "1">>,
      <<"2", "*", "Q", "2">>,
      <<"(", "2", ")", "*", "Q", "2">>,
      <<"Q", "2", "+", "0", ".", "5">>,
      <<"1">>,
      <<"1", "H">>,
      <<"2", "h">>,
      <<"A">>,
      <<"s", " ", "2">>,
      <<"S", "_", "2">>,
      <<"A", "B">> }

EvalInit ==
    /\ timePeriods \in {PeriodsOf(l) : l \in PeriodLabelLists}
    /\ expr \in ShortExprs \cup NamedExprs
    /\ evalResult = Whole(0)
    /\ called = {}
    /\ DragIdle
    /\ PackIdle
    /\ RenderIdle
    /\ ResolveIdle
    /\ ParseIdle

EvaluateExpressionCall ==
    /\ "evaluateExpression" \notin called
    /\ evalResult' = evaluateExpression(expr, periodMapOf(timePeriods))
    /\ called' = called \cup {"evaluateExpression"}
    /\ UNCHANGED <<dragVars, timePeriods, expr, packVars, renderVars, resolveVars, parseVars>>

EvalNext == EvaluateExpressionCall

SpecEval == EvalInit /\ [][EvalNext]_vars

Evaluated == "evaluateExpression" \in called

(***************************************************************************)
(* Properties of the evaluator.                                            *)
(***************************************************************************)
\* C5: evaluateExpression always returns a finite number; where the
\* arithmetic fails or gives NaN or a non-finite value it returns 0.
C5_AlwaysFinite == Evaluated => IsFinite(evalResult)

\* The reference reading of an expression: period names (label or id, in
\* any letter case, the longest first) stand for their index, decimal
\* literals for their value, and + - * / ( ) have their standard meaning.
NameIndexes(name) ==
    {timePeriods[i].index : i \in {j \in 1..Len(timePeriods) :
        name \in {toLowerCase(timePeriods[j].label), toLowerCase(timePeriods[j].id)}}}

NamesAt(s, i) ==
    {n \in UNION {{toLowerCase(timePeriods[j].label), toLowerCase(timePeriods[j].id)}
                     : j \in 1..Len(timePeriods)} : StartsAt(s, i, n)}

\* The token that starts at position i of s: [ok, t, v, i] with t "num" or
\* the operator character, and i the next position.
RefToken(s, i) ==
    LET names == NamesAt(s, i)
        name == CHOOSE n \in names : \A m \in names : Len(m) <= Len(n)
        ie == DigitsEnd(s, i)
        frac == At(s, ie + 1) = "." /\ IsDigit(At(s, ie + 2))
        fe == IF frac THEN DigitsEnd(s, ie + 2) ELSE ie
    IN  CASE names # {} ->
               IF Cardinality(NameIndexes(name)) = 1
               THEN [ok |-> TRUE, t |-> "num", i |-> i + Len(name),
                     v |-> Whole(CHOOSE x \in NameIndexes(name) : TRUE)]
               ELSE [ok |-> FALSE, t |-> "", i |-> 0, v |-> NaN]
          [] IsDigit(At(s, i)) ->
               [ok |-> TRUE, t |-> "num", i |-> fe + 1,
                v |-> IF frac THEN DecimalVal(s, i, ie, ie + 2, fe)
                      ELSE DecimalVal(s, i, ie, 1, 0)]
          [] At(s, i) \in {"+", "-", "*", "/", "(", ")"} ->
               [ok |-> TRUE, t |-> At(s, i), i |-> i + 1, v |-> NaN]
          [] OTHER -> [ok |-> FALSE, t |-> "", i |-> 0, v |-> NaN]

RECURSIVE RefSum(_, _)
RECURSIVE RefSumLoop(_, _)
RECURSIVE RefProduct(_, _)
RECURSIVE RefProductLoop(_, _)
RECURSIVE RefFactor(_, _)

RefFactor(s, i) ==
    LET tok == RefToken(s, i)
    IN  IF ~tok.ok THEN Fail
        ELSE IF tok.t = "num" THEN Ok(tok.v, tok.i)
        ELSE IF tok.t = "("
             THEN LET r == RefSum(s, tok.i)
                  IN  IF r.ok /\ At(s, r.i) = ")" THEN Ok(r.v, r.i + 1) ELSE Fail
        ELSE Fail

RefProductLoop(s, acc) ==
    IF At(s, acc.i) \in {"*", "/"}
    THEN LET r == RefFactor(s, acc.i + 1)
         IN  IF ~r.ok THEN Fail
             ELSE RefProductLoop(s, Ok(IF At(s, acc.i) = "*" THEN Mul(acc.v, r.v)
                                       ELSE Div(acc.v, r.v), r.i))
    ELSE acc

RefProduct(s, i) ==
    LET r == RefFactor(s, i)
    IN  IF r.ok THEN RefProductLoop(s, r) ELSE Fail

RefSumLoop(s, acc) ==
    IF At(s, acc.i) \in {"+", "-"}
    THEN LET r == RefProduct(s, acc.i + 1)
         IN  IF ~r.ok THEN Fail
             ELSE RefSumLoop(s, Ok(IF At(s, acc.i) = "+" THEN Add(acc.v, r.v)
                                   ELSE Sub(acc.v, r.v), r.i))
    ELSE acc

RefSum(s, i) ==
    LET r == RefProduct(s, i)
    IN  IF r.ok THEN RefSumLoop(s, r) ELSE Fail

\* The reference value of the expression of the state; ok only for a
\* well-formed expression whose value is a finite number.
RefValue ==
    LET s == toLowerCase(expr)
        r == RefSum(s, 1)
    IN  IF r.ok /\ r.i = Len(s) + 1 /\ r.v.k = "fin" THEN r ELSE Fail

\* C6: for a well-formed expression evaluateExpression returns its value
\* under standard precedence, with every period name replaced by its index,
\* also when the expression begins with a numeral.
C6_WellFormedValue == (Evaluated /\ RefValue.ok) => NumEq(evalResult, RefValue.v)

NamesOf(p) == {toLowerCase(p.label), toLowerCase(p.id)}

\* The labels are pairwise distinct, and stay so when the letter case is
\* ignored and the ids are counted as names too.
DistinctNames ==
    \A i, j \in 1..Len(timePeriods) :
        i # j => NamesOf(timePeriods[i]) \cap NamesOf(timePeriods[j]) = {}

\* The whole string is a plain decimal number.
PlainDecimal(str) ==
    /\ \E i \in 1..Len(str) : IsDigit(str[i])
    /\ \A i \in 1..Len(str) : IsDigit(str[i]) \/ str[i] = "."
    /\ Cardinality({i \in 1..Len(str) : str[i] = "."}) <= 1

\* C7: with pairwise distinct labels, an expression that is exactly one
\* period's label or id, in any letter case, evaluates to that period's
\* index.  (Stated for period lists whose names are distinct in every letter
\* case, where "that period" is one period only, and for expressions that
\* are no plain decimal number, which the evaluator returns as they are.)
C7_NameGivesIndex ==
    (Evaluated /\ DistinctNames /\ ~PlainDecimal(expr)) =>
        \A i \in 1..Len(timePeriods) :
            toLowerCase(expr) \in NamesOf(timePeriods[i])
                => NumEq(evalResult, Whole(timePeriods[i].index))

\* The characters that the sanitization keeps.
ArithmeticChars == {Digits[i] : i \in 1..10} \cup {"+", "-", "*", "/", "(", ")", "."}

\* What remains of the expression after the substitution of the period names
\* when every other character is deleted.
Remains ==
    LET Kept(c) == c \in ArithmeticChars
    IN  SelectSeq(Substitute(toLowerCase(expr), SortByLength(periodMapOf(timePeriods))),
                  Kept)

\* C24: an unknown token never causes an evaluation error: every character
\* that is not a digit or one of + - * / ( ) . is deleted after the
\* substitution and the result is the value of what remains (0 where what
\* remains has no value); it is 0 when nothing remains or the expression is
\* empty.
C24_ValueOfRemains ==
    LET substituted == Substitute(toLowerCase(expr),
                                  SortByLength(periodMapOf(timePeriods)))
    IN  /\ (Evaluated /\ expr = <<>>) => evalResult = Whole(0)
        /\ (Evaluated /\ Remains # substituted) =>
               evalResult = IF Remains = <<>> THEN Whole(0)
                            ELSE ResultOrZero(EvalJS(Remains))

\* C30: the string that evaluateExpression hands to the dynamic evaluation
\* consists only of the characters 0-9 + - * / ( ) and '.', for every
\* expression and every list of period names.
C30_OnlyArithmeticChars ==
    Evaluated =>
        \A i \in 1..Len(Sanitized(expr, periodMapOf(timePeriods))) :
            Sanitized(expr, periodMapOf(timePeriods))[i] \in ArithmeticChars

C30_Witness ==
    /\ Evaluated
    /\ ~IsSimpleNumber(parseFloat(expr))
    /\ \E i \in 1..Len(expr) : expr[i] \in {"a", "b", " ", "Q", "_"}
    /\ Len(Sanitized(expr, periodMapOf(timePeriods))) > 0
    /\ Len(Sanitized(expr, periodMapOf(timePeriods))) < Len(expr)

(***************************************************************************)
(* The resolver as a state machine: a document as parseRoadmapText builds  *)
(* it is given, and resolveRoadmap is called on it.                        *)
(***************************************************************************)
Shape(start, end, length, color) ==
    [startExpression |-> start, endExpression |-> end,
     lengthExpression |-> length, color |-> color]

\* The items of the model: an end, a length, both, neither; an end before
\* the start, a zero and a negative length, an empty end, a division by the
\* period of index 0, an explicit color, an empty color.
ItemShapes ==
    << Shape(<<"Q", "1">>, <<"Q", "2">>, Undefined, Undefined),
       Shape(<<"Q", "2">>, Undefined, <<"2">>, Undefined),
       Shape(<<"Q", "1", "+", "(", "Q", "2", "-", "Q", "1", ")", "/", "2">>, <<"Q", "4">>, Undefined, Undefined),
       Shape(<<"Q", "3">>, <<"Q", "1">>, Undefined, Undefined),
       Shape(<<"Q", "2">>, Undefined, <<"0">>, Undefined),
       Shape(<<"Q", "2">>, Undefined, <<"-", "1">>, Undefined),
       Shape(<<"Q", "2", "/", "Q", "1">>, Undefined, Undefined, Undefined),
       Shape(<<"0">>, Undefined, Undefined, Undefined),
       Shape(<<"Q", "1">>, <<"Q", "2">>, <<"3">>, Undefined),
       Shape(<<"Q", "2">>, <<>>, <<"2">>, Undefined),
       Shape(<<"Q", "1">>, <<"Q", "2", "/", "Q", "1">>, Undefined, Undefined),
       Shape(<<"Q", "4">>, Undefined, Undefined, <<"r", "e", "d">>),
       Shape(<<"Q", "3">>, Undefined, Undefined, <<>>) >>

MakeItem(shape, n, laneId) ==
    [id |-> ItemId(n), title |-> <<"T">> \o IntToStr(n),
     startExpression |-> shape.startExpression,
     endExpression |-> shape.endExpression,
     lengthExpression |-> shape.lengthExpression,
     swimlane |-> laneId, color |-> shape.color]

\* The document with the given periods and lanes swimlanes, whose items in
\* document order have the given shapes, item i being in swimlane laneOf[i].
DocumentOf(periods, lanes, shapes, laneOf) ==
    LET first(l) == Cardinality({i \in 1..Len(shapes) : laneOf[i] < l})
        count(l) == Cardinality({i \in 1..Len(shapes) : laneOf[i] = l})
    IN  [timePeriods |-> periods,
         swimlanes |->
             [l \in 1..lanes |->
                 [id |-> SwimlaneId(l - 1),
                  label |-> <<"L">> \o IntToStr(l),
                  items |-> [k \in 1..count(l) |->
                                MakeItem(shapes[first(l) + k], first(l) + k - 1,
                                         SwimlaneId(l - 1))]]],
         title |-> Undefined]

DocPeriodLists ==
    { PeriodsOf(<< <<"Q", "1">>, <<"Q", "2">> >>),
      PeriodsOf(<< <<"Q", "1">>, <<"Q", "2">>, <<"Q", "3">>, <<"Q", "4">> >>),
      PeriodsOf(<< <<"a">>, <<"b">>, <<"a", "b">> >>) }

\* The documents with the given period lists and shapes of items: up to
\* MaxDocItems items in up to MaxLanes swimlanes.
DocumentsOver(periodLists, ShapesOf(_)) ==
    UNION {UNION {UNION {
        {DocumentOf(periods, lanes, shapes, laneOf) :
            laneOf \in {f \in [1..n -> 1..lanes] : \A i \in 1..(n - 1) : f[i] <= f[i + 1]},
            shapes \in ShapesOf(n)}
        : n \in 0..MaxDocItems} : lanes \in 1..MaxLanes} : periods \in periodLists}

\* n consecutive shapes of ItemShapes, from every place in it.
ConsecutiveShapes(n) ==
    {[i \in 1..n |-> ItemShapes[((o + i - 2) % Len(ItemShapes)) + 1]]
        : o \in 1..Len(ItemShapes)}

Documents == DocumentsOver(DocPeriodLists, ConsecutiveShapes)

\* The shapes that differ in their color only: none, one, an empty one.
ColorShapes(n) ==
    [1..n -> { Shape(<<"Q", "1">>, Undefined, Undefined, Undefined),
               Shape(<<"Q", "1">>, Undefined, Undefined, <<"r", "e", "d">>),
               Shape(<<"Q", "1">>, Undefined, Undefined, <<>>) }]

\* Documents with more items than the built-in palette has colors, all
\* without a color of their own, the first c of them in the first swimlane
\* and the others in the last.
LongDocuments ==
    {DocumentOf(DefaultPeriods, lanes,
                [i \in 1..(Len(COLORS) + MaxLanes) |->
                    Shape(<<"Q", "1">>, Undefined, Undefined, Undefined)],
                [i \in 1..(Len(COLORS) + MaxLanes) |-> IF i <= c THEN 1 ELSE lanes])
        : lanes \in 1..MaxLanes, c \in {0, 1, MaxDocItems, Len(COLORS)}}

\* The palettes a caller hands over: none, or a list of colors.
Palettes ==
    { <<>>,
      << <<"r", "e", "d">> >>,
      << <<"#", "1", "1", "1">>, <<"#", "2", "2", "2">> >> }

ResolveInit ==
    /\ \/ data \in Documents /\ palette = <<>>
       \/ /\ data \in DocumentsOver({DefaultPeriods}, ColorShapes) \cup LongDocuments
          /\ palette \in Palettes
    /\ resolved = NoDocument
    /\ called = {}
    /\ DragIdle
    /\ PackIdle
    /\ RenderIdle
    /\ EvalIdle
    /\ ParseIdle

\* resolveRoadmap(parsed, undefined)
ResolveRoadmapCall ==
    /\ "resolveRoadmap" \notin called
    /\ palette = <<>>
    /\ resolved' = resolveRoadmap(data)
    /\ called' = called \cup {"resolveRoadmap"}
    /\ UNCHANGED <<dragVars, data, palette, packVars, renderVars, evalVars, parseVars>>

\* resolveRoadmap(parsed, palette) with a palette that is not empty
ResolveRoadmapPaletteCall ==
    /\ "resolveRoadmap" \notin called
    /\ palette # <<>>
    /\ resolved' = resolveRoadmapPalette(data, palette)
    /\ called' = called \cup {"resolveRoadmap"}
    /\ UNCHANGED <<dragVars, data, palette, packVars, renderVars, evalVars, parseVars>>

ResolveNext == ResolveRoadmapCall \/ ResolveRoadmapPaletteCall

SpecResolve == ResolveInit /\ [][ResolveNext]_vars

Resolved == "resolveRoadmap" \in called

ResolvedItems ==
    UNION {{resolved.swimlanes[l].items[k] : k \in 1..Len(resolved.swimlanes[l].items)}
           : l \in 1..Len(resolved.swimlanes)}

(***************************************************************************)
(* Properties of the resolver.                                             *)
(***************************************************************************)
\* C4: every item that resolveRoadmap returns has endIndex > startIndex,
\* whatever its start, end and length expressions evaluate to.
C4_EndAfterStart ==
    Resolved => \A it \in ResolvedItems : NumLt(it.startIndex, it.endIndex)

\* The pairs of an item of the document and the item resolved from it.
ItemPairs ==
    UNION {{<<data.swimlanes[l].items[k], resolved.swimlanes[l].items[k]>>
               : k \in 1..Len(data.swimlanes[l].items)}
           : l \in 1..Len(data.swimlanes)}

Present(field) == field # Undefined /\ field # <<>>

\* C12: the end of an item is chosen by priority: the value of the end
\* expression when one is present, else startIndex plus the value of the
\* length expression when one is present, else startIndex + 1; the value so
\* chosen is the endIndex wherever it is after the start, and startIndex + 1
\* is the endIndex otherwise.  With periods Q1, Q2 the item with start Q1 and
\* end Q2 resolves to startIndex 0 and endIndex 1.
C12_EndPriority ==
    Resolved =>
        /\ Len(resolved.swimlanes) = Len(data.swimlanes)
        /\ \A l \in 1..Len(data.swimlanes) :
               Len(resolved.swimlanes[l].items) = Len(data.swimlanes[l].items)
        /\ \A pair \in ItemPairs :
               LET it == pair[1]
                   pm == periodMapOf(data.timePeriods)
                   start == evaluateExpression(it.startExpression, pm)
                   chosen ==
                       IF Present(it.endExpression)
                       THEN evaluateExpression(it.endExpression, pm)
                       ELSE IF Present(it.lengthExpression)
                            THEN Add(start, evaluateExpression(it.lengthExpression, pm))
                            ELSE Add(start, Whole(1))
               IN  /\ pair[2].startIndex = start
                   /\ pair[2].endIndex =
                          IF NumLt(start, chosen) THEN chosen ELSE Add(start, Whole(1))
                   /\ (/\ Len(data.timePeriods) = 2
                       /\ it.startExpression = <<"Q", "1">>
                       /\ it.endExpression = <<"Q", "2">>)
                          => (pair[2].startIndex = Whole(0) /\ pair[2].endIndex = Whole(1))

\* An item with both an end and a length takes the end; one with an empty
\* end takes the length.
C12_Witness ==
    /\ Resolved
    /\ Len(data.timePeriods) = 2
    /\ \E pair \in ItemPairs :
           /\ pair[1].startExpression = <<"Q", "1">>
           /\ pair[1].endExpression = <<"Q", "2">>
           /\ pair[1].lengthExpression = <<"3">>
           /\ pair[2].endIndex = Whole(1)
    /\ \E pair \in ItemPairs :
           /\ pair[1].endExpression = <<>>
           /\ pair[1].lengthExpression = <<"2">>
           /\ pair[2].endIndex = Whole(3)

\* The places of the items of the document, and the number of items before
\* a place in document order.
Places ==
    UNION {{<<l, k>> : k \in 1..Len(data.swimlanes[l].items)}
           : l \in 1..Len(data.swimlanes)}

DocIndex(place) ==
    Cardinality({q \in Places : q[1] < place[1] \/ (q[1] = place[1] /\ q[2] < place[2])})

ItemAt(place) == data.swimlanes[place[1]].items[place[2]]
ColorAt(place) == resolved.swimlanes[place[1]].items[place[2]].color

\* C13: with no explicit colors and no custom palette, the first 15 items
\* in document order get 15 pairwise distinct colors, in the order of the
\* built-in palette, and the 16th item gets the color of the 1st.
C13_FifteenColors ==
    (Resolved /\ palette = <<>> /\ \A place \in Places : ~Present(ItemAt(place).color)) =>
        /\ Len(COLORS) = 15
        /\ \A place \in Places :
               DocIndex(place) < 15 => ColorAt(place) = COLORS[DocIndex(place) + 1]
        /\ \A p1, p2 \in Places :
               (DocIndex(p1) < DocIndex(p2) /\ DocIndex(p2) < 15) => ColorAt(p1) # ColorAt(p2)
        /\ \A p1, p2 \in Places :
               (DocIndex(p1) = 0 /\ DocIndex(p2) = 15) => ColorAt(p2) = ColorAt(p1)

C13_Witness ==
    /\ Resolved
    /\ palette = <<>>
    /\ Len(data.swimlanes) = 2
    /\ Len(data.swimlanes[1].items) = MaxDocItems
    /\ Cardinality(Places) > 15
    /\ \A place \in Places : ~Present(ItemAt(place).color)
    /\ \E place \in Places :
           DocIndex(place) = 15 /\ ColorAt(place) = <<"#", "4", "2", "8", "5", "F", "4">>

\* C14: the color counter is global: the k-th item of the whole document,
\* counted from 0 across all swimlanes and counting the items that have a
\* color of their own, gets its own color if it has one and the palette
\* color k mod the palette length otherwise; the color is never empty.
C14_GlobalCounter ==
    (Resolved /\ palette = <<>>) =>
        \A place \in Places :
            /\ ColorAt(place) =
                   IF Present(ItemAt(place).color) THEN ItemAt(place).color
                   ELSE COLORS[(DocIndex(place) % Len(COLORS)) + 1]
            /\ ColorAt(place) # <<>>
            /\ ColorAt(place) # Undefined

\* An item with a color of its own in the first swimlane, and behind it an
\* item in the second swimlane that takes the second palette color.
C14_Witness ==
    /\ Resolved
    /\ palette = <<>>
    /\ Len(data.swimlanes) = 2
    /\ Len(data.swimlanes[1].items) = 1
    /\ Len(data.swimlanes[2].items) = 1
    /\ ColorAt(<<1, 1>>) = <<"r", "e", "d">>
    /\ ItemAt(<<2, 1>>).color = <<>>
    /\ ColorAt(<<2, 1>>) = <<"#", "E", "A", "4", "3", "3", "5">>

LineSet ==
    { <<"#", " ", "T">>,
      <<"#", " ", "U">>,
      <<"#", "#", " ", "P", "e", "r", "i", "o", "d", "s">>,
      <<"#", "#", " ", "T", "e", "a", "m">>,
      <<"#", "#", " ", "L", "a", "n", "e", ":", " ", "X">>,
      <<"Q", "1", ",", " ", "Q", "2">>,
      <<"Q", "3">>,
      <<"-", " ", "A", " ", "|", " ", "s", "t", "a", "r", "t", ":", " ", "Q", "1", " ", "|", " ", "e", "n", "d", ":", " ", "Q", "2">>,
      <<"-", " ", "B", " ", "|", " ", "l", "e", "n", "g", "t", "h", ":", " ", "2">>,
      <<>> }

ShortTexts == UNION {[1..n -> LineSet] : n \in 0..MaxLines}

\* A text where period sections alternate with swimlane sections.
InterleavedText ==
    << <<"#", "#", " ", "P", "e", "r", "i", "o", "d", "s">>,
       <<"Q", "1", ",", " ", "Q", "2">>,
       <<"Q", "3">>,
       <<"#", "#", " ", "T", "e", "a", "m">>,
       <<"-", " ", "A", " ", "|", " ", "s", "t", "a", "r", "t", ":", " ", "Q", "2", " ", "|", " ", "l", "e", "n", "g", "t", "h", ":", " ", "2">>,
       <<"#", "#", " ", "T", "i", "m", "e", "l", "i", "n", "e">>,
       <<"Q", "4", ",", " ", "Q", "5">>,
       <<"#", "#", " ", "t", "e", "a", "m", ":", " ", "B">>,
       <<"-", " ", "B", " ", "|", " ", "s", "t", "a", "r", "t", ":", " ", "Q", "1", "+", "(", "Q", "2", "-", "Q", "1", ")", "/", "2", " ", "|", " ", "e", "n", "d", ":", " ", "Q", "5", " ", "|", " ", "c", "o", "l", "o", "r", ":", " ", "r", "e", "d">> >>

\* Longer texts: the example of the documentation, two titles around a
\* section, odd spacing and empty fields, items in and out of swimlanes,
\* items with both an end and a length, reserved words as swimlane labels.
NamedTexts ==
    { InterleavedText,
      << <<"#", " ", "P", "l", "a", "n">>,
         <<>>,
         <<"#", "#", " ", "P", "e", "r", "i", "o", "d", "s">>,
         <<"Q", "1", ",", " ", "Q", "2">>,
         <<"#", "#", " ", "T", "e", "a", "m">>,
         <<"-", " ", "A", " ", "|", " ", "s", "t", "a", "r", "t", ":", " ", "Q", "1", " ", "|", " ", "e", "n", "d", ":", " ", "Q", "2">> >>,
      << <<"#", " ", "F", "i", "r", "s", "t">>,
         <<"#", "#", " ", "P", "e", "r", "i", "o", "d", "s">>,
         <<"J", "a", "n", " ", "2", "6", ",", " ", "F", "e", "b", " ", "2", "6">>,
         <<"#", " ", "S", "e", "c", "o", "n", "d">>,
         <<"#", "#", " ", "T", "e", "a", "m">>,
         <<"-", " ", "A", " ", "|", " ", "s", "t", "a", "r", "t", ":", " ", "J", "a", "n", " ", "2", "6">> >>,
      << <<" ", " ", "#", "#", " ", "T", "i", "m", "e", " ", "P", "e", "r", "i", "o", "d", "s", " ", " ">>,
         <<" ", ",", " ", "S", " ", "1", " ", ",", ",", " ", "S", " ", "2">>,
         <<"#", "#">>,
         <<"#", "#", " ", "s", "w", "i", "m", "l", "a", "n", "e", ":">>,
         <<"-", " ", "A", " ", "|", " ", "E", "N", "D", ":", " ", "S", " ", "2", " ", "|", " ", "s", "t", "a", "r", "t", ":">>,
         <<"-">>,
         <<"#">> >>,
      << <<"#", "#", " ", "P", "e", "r", "i", "o", "d", "s">>,
         <<"-", " ", "A", " ", "|", " ", "s", "t", "a", "r", "t", ":", " ", "Q", "1">>,
         <<"Q", "1">>,
         <<"#", "#", " ", "T", "e", "a", "m">>,
         <<"#", "#", " ", "P", "e", "r", "i", "o", "d", "s">>,
         <<"-", " ", "B", " ", "|", " ", "s", "t", "a", "r", "t", ":", " ", "Q", "1">> >>,
      \* items that carry both an end and a length
      << <<"#", "#", " ", "P", "e", "r", "i", "o", "d", "s">>,
         <<"Q", "1", ",", " ", "Q", "2", ",", " ", "Q", "3", ",", " ", "Q", "4">>,
         <<"#", "#", " ", "T", "e", "a", "m">>,
         <<"-", " ", "A", " ", "|", " ", "s", "t", "a", "r", "t", ":", " ", "Q", "1", " ", "|", " ", "e", "n", "d", ":", " ", "Q", "3", " ", "|", " ", "l", "e", "n", "g", "t", "h", ":", " ", "1">>,
         <<"-", " ", "B", " ", "|", " ", "s", "t", "a", "r", "t", ":", " ", "Q", "2", " ", "|", " ", "l", "e", "n", "g", "t", "h", ":", " ", "2", " ", "|", " ", "e", "n", "d", ":", " ", "Q", "3">> >>,
      \* swimlanes whose label is a reserved header word
      << <<"#", "#", " ", "P", "e", "r", "i", "o", "d", "s">>,
         <<"Q", "1", ",", " ", "Q", "2">>,
         <<"#", "#", " ", "T", "e", "a", "m", ":", " ", "P", "e", "r", "i", "o", "d", "s">>,
         <<"-", " ", "A", " ", "|", " ", "s", "t", "a", "r", "t", ":", " ", "Q", "1", " ", "|", " ", "e", "n", "d", ":", " ", "Q", "2">>,
         <<"#", "#", " ", "L", "a", "n", "e", ":", " ", "T", "i", "m", "e", "l", "i", "n", "e">>,
         <<"-", " ", "B", " ", "|", " ", "s", "t", "a", "r", "t", ":", " ", "Q", "2">> >> }

ParseInit ==
    /\ text \in ShortTexts \cup NamedTexts
    /\ lineIdx = 0
    /\ timePeriods = <<>>
    /\ swimlanes = <<>>
    /\ title = Undefined
    /\ currentSwimlane = 0
    /\ parsingSection = "none"
    /\ itemCounter = 0
    /\ parsePc = "loop"
    /\ data = NoDocument
    /\ resolved = NoDocument
    /\ palette = <<>>
    /\ expr = <<>>
    /\ evalResult = Whole(0)
    /\ called = {}
    /\ DragIdle
    /\ PackIdle
    /\ RenderIdle

InLoop == parsePc = "loop" /\ lineIdx < Len(LinesOf(text))
CurLine == LinesOf(text)[lineIdx + 1]

\* title = line.slice(2).trim()
KeepFirstTitle(old, line) == IF old = Undefined THEN trim(slice(line, 2)) ELSE old
TitleAfter(old, line) == trim(slice(line, 2))

ParseTitleLine ==
    /\ InLoop
    /\ IsTitleLine(CurLine)
    /\ title' = TitleAfter(title, CurLine)
    /\ lineIdx' = lineIdx + 1
    /\ UNCHANGED <<dragVars, text, timePeriods, swimlanes, currentSwimlane, parsingSection,
                   itemCounter, parsePc, data, resolved, palette, expr, evalResult, called,
                   packVars, renderVars>>

ParsePeriodsHeader ==
    /\ InLoop
    /\ IsPeriodsHeader(CurLine)
    /\ parsingSection' = "periods"
    /\ lineIdx' = lineIdx + 1
    /\ UNCHANGED <<dragVars, text, timePeriods, swimlanes, title, currentSwimlane,
                   itemCounter, parsePc, data, resolved, palette, expr, evalResult, called,
                   packVars, renderVars>>

ParsePrefixedHeader ==
    /\ InLoop
    /\ IsPrefixedHeader(CurLine)
    /\ swimlanes' = Append(swimlanes,
                           NewSwimlane(SwimlaneId(Len(swimlanes)), PrefixedLabel(CurLine)))
    /\ currentSwimlane' = Len(swimlanes) + 1
    /\ parsingSection' = "swimlane"
    /\ lineIdx' = lineIdx + 1
    /\ UNCHANGED <<dragVars, text, timePeriods, title, itemCounter, parsePc, data, resolved, palette,
                   expr, evalResult, called, packVars, renderVars>>

ParseGenericHeader ==
    /\ InLoop
    /\ IsGenericHeader(CurLine)
    /\ swimlanes' = Append(swimlanes,
                           NewSwimlane(SwimlaneId(Len(swimlanes)), trim(slice(CurLine, 3))))
    /\ currentSwimlane' = Len(swimlanes) + 1
    /\ parsingSection' = "swimlane"
    /\ lineIdx' = lineIdx + 1
    /\ UNCHANGED <<dragVars, text, timePeriods, title, itemCounter, parsePc, data, resolved, palette,
                   expr, evalResult, called, packVars, renderVars>>

ParsePeriodLine ==
    /\ InLoop
    /\ IsPeriodLine(CurLine, parsingSection)
    /\ timePeriods' = PushPeriods(timePeriods, PeriodLabels(CurLine))
    /\ lineIdx' = lineIdx + 1
    /\ UNCHANGED <<dragVars, text, swimlanes, title, currentSwimlane, parsingSection,
                   itemCounter, parsePc, data, resolved, palette, expr, evalResult, called,
                   packVars, renderVars>>

\* if (!currentSwimlane) { currentSwimlane = { id: "swimlane-default", ... };
\* swimlanes.push(currentSwimlane) }, then the item goes to currentSwimlane.
ParseItemLine ==
    /\ InLoop
    /\ IsItemLine(CurLine, parsingSection)
    /\ LET lanes == IF currentSwimlane = 0
                    THEN Append(swimlanes, NewSwimlane(DefaultSwimlaneId, DefaultLabel))
                    ELSE swimlanes
           cur == IF currentSwimlane = 0 THEN Len(swimlanes) + 1 ELSE currentSwimlane
           item == parseItem(trim(slice(CurLine, 1)), itemCounter, lanes[cur].id)
       IN  /\ swimlanes' = [lanes EXCEPT ![cur].items = Append(@, item)]
           /\ currentSwimlane' = cur
    /\ itemCounter' = itemCounter + 1
    /\ lineIdx' = lineIdx + 1
    /\ UNCHANGED <<dragVars, text, timePeriods, title, parsingSection, parsePc, data, resolved, palette,
                   expr, evalResult, called, packVars, renderVars>>

\* A line that no branch takes is dropped.
ParseSkipLine ==
    /\ InLoop
    /\ ~Consumed(CurLine)
    /\ ~IsPeriodLine(CurLine, parsingSection)
    /\ ~IsItemLine(CurLine, parsingSection)
    /\ lineIdx' = lineIdx + 1
    /\ UNCHANGED <<dragVars, text, timePeriods, swimlanes, title, currentSwimlane,
                   parsingSection, itemCounter, parsePc, data, resolved, palette, expr,
                   evalResult, called, packVars, renderVars>>

\* if (timePeriods.length === 0) the four default periods are pushed;
\* return { timePeriods, swimlanes, title }
ParseReturn ==
    /\ parsePc = "loop"
    /\ lineIdx = Len(LinesOf(text))
    /\ timePeriods' = IF Len(timePeriods) = 0 THEN DefaultPeriods ELSE timePeriods
    /\ data' = [timePeriods |-> timePeriods', swimlanes |-> swimlanes, title |-> title]
    /\ parsePc' = "done"
    /\ called' = called \cup {"parseRoadmapText"}
    /\ UNCHANGED <<dragVars, text, lineIdx, swimlanes, title, currentSwimlane, parsingSection,
                   itemCounter, resolved, palette, expr, evalResult, packVars, renderVars>>

\* A counter that lives on between the calls.
ItemCounterKept(previous) == previous

\* let itemCounter = 0 at the entry of parseRoadmapText, whatever the value
\* the call before left.
ItemCounterAtEntry(previous) == 0

\* App.tsx, roadmapData: the same input text is parsed and resolved once
\* more (the memo is recomputed); resolved holds the roadmap of the call
\* before.
ParseSameTextAgain ==
    /\ parsePc = "done"
    /\ called = {"parseRoadmapText"}
    /\ resolved' = resolveRoadmap(data)
    /\ lineIdx' = 0
    /\ timePeriods' = <<>>
    /\ swimlanes' = <<>>
    /\ title' = Undefined
    /\ currentSwimlane' = 0
    /\ parsingSection' = "none"
    /\ itemCounter' = ItemCounterAtEntry(itemCounter)
    /\ parsePc' = "loop"
    /\ called' = {"sameTextAgain"}
    /\ UNCHANGED <<dragVars, text, data, palette, expr, evalResult, packVars, renderVars>>

\* App.handleUIDataChange: the text of the parsed document becomes the
\* input text, which is parsed again; resolved holds the roadmap resolved
\* from the text before.
HandleUIDataChange ==
    /\ parsePc = "done"
    /\ "parseRoadmapText" \in called
    /\ "roadmapDataToText" \notin called
    /\ resolved' = resolveRoadmap(data)
    /\ text' = roadmapDataToText(data)
    /\ lineIdx' = 0
    /\ timePeriods' = <<>>
    /\ swimlanes' = <<>>
    /\ title' = Undefined
    /\ currentSwimlane' = 0
    /\ parsingSection' = "none"
    /\ itemCounter' = ItemCounterAtEntry(itemCounter)
    /\ parsePc' = "loop"
    /\ called' = {"roadmapDataToText"}
    /\ UNCHANGED <<dragVars, data, palette, expr, evalResult, packVars, renderVars>>

\* The list as it is when nothing is taken out.
KeepAt(list, i) == list

\* swimlane.items.splice(itemIndex, 1)
RemoveAt(list, i) == SubSeq(list, 1, i - 1) \o SubSeq(list, i + 1, Len(list))

\* App.handleItemMove on the document parsed from the input text: the first
\* swimlane that holds an item with the id is taken (findIndex, break); the
\* item gets the new start; when the two swimlane ids differ it is spliced
\* out and, if a swimlane with the target id is found, pushed there with its
\* swimlane field set.  The item is one object, changed in place.
handleItemMove(parsed, itemId, fromSwimlane, toSwimlane, newStartPeriod) ==
    LET Holders == {a \in UNION {{<<l, k>> : k \in 1..Len(parsed.swimlanes[l].items)} :
                                     l \in 1..Len(parsed.swimlanes)} :
                        parsed.swimlanes[a[1]].items[a[2]].id = itemId}
        Firsts == {a \in Holders :
                      \A b \in Holders : a[1] < b[1] \/ (a[1] = b[1] /\ a[2] <= b[2])}
        Targets == {t \in 1..Len(parsed.swimlanes) :
                       /\ parsed.swimlanes[t].id = toSwimlane
                       /\ \A u \in 1..(t - 1) : parsed.swimlanes[u].id # toSwimlane}
        Spliced(list, l, a) == IF l = a[1] THEN RemoveAt(list, a[2]) ELSE list
        Pushed(l, item) ==
            IF l \in Targets THEN <<[item EXCEPT !.swimlane = toSwimlane]>> ELSE <<>>
        Moved(a, item) ==
            IF fromSwimlane # toSwimlane
            THEN [l \in 1..Len(parsed.swimlanes) |->
                     [parsed.swimlanes[l] EXCEPT
                          !.items = Spliced(@, l, a) \o Pushed(l, item)]]
            ELSE [parsed.swimlanes EXCEPT ![a[1]].items[a[2]] = item]
        Started(item) == [item EXCEPT !.startExpression = newStartPeriod]
        Found == {[parsed |-> [parsed EXCEPT !.swimlanes =
                                   Moved(a, Started(parsed.swimlanes[a[1]].items[a[2]]))],
                   itemFound |-> TRUE] : a \in Firsts}
    IN  IF Found = {} THEN [parsed |-> parsed, itemFound |-> FALSE]
        ELSE CHOOSE result \in Found : TRUE

\* A drag of the preview ends in onItemMove = App.handleItemMove: the item,
\* the swimlane it is drawn in, the swimlane under the pointer and the label
\* of the period under the pointer.  data becomes the document that is
\* serialized; the new text is parsed.
HandleItemMove ==
    /\ parsePc = "done"
    /\ called = {"parseRoadmapText"}
    /\ \E l \in 1..Len(data.swimlanes), t \in 1..Len(data.swimlanes),
          p \in 1..Len(data.timePeriods) :
          \E k \in 1..Len(data.swimlanes[l].items) :
              /\ data' = handleItemMove(data, data.swimlanes[l].items[k].id,
                                        data.swimlanes[l].id, data.swimlanes[t].id,
                                        data.timePeriods[p].label).parsed
              /\ text' = roadmapDataToText(data')
    /\ lineIdx' = 0
    /\ timePeriods' = <<>>
    /\ swimlanes' = <<>>
    /\ title' = Undefined
    /\ currentSwimlane' = 0
    /\ parsingSection' = "none"
    /\ itemCounter' = ItemCounterAtEntry(itemCounter)
    /\ parsePc' = "loop"
    /\ called' = {"handleItemMove", "roadmapDataToText"}
    /\ UNCHANGED <<dragVars, resolved, palette, expr, evalResult, packVars, renderVars>>

ParseNext ==
    \/ ParseSameTextAgain
    \/ HandleUIDataChange
    \/ HandleItemMove
    \/ ParseTitleLine
    \/ ParsePeriodsHeader
    \/ ParsePrefixedHeader
    \/ ParseGenericHeader
    \/ ParsePeriodLine
    \/ ParseItemLine
    \/ ParseSkipLine
    \/ ParseReturn

SpecParse == ParseInit /\ [][ParseNext]_vars

Parsed == "parseRoadmapText" \in called

(***************************************************************************)
(* Properties of the parser.                                               *)
(***************************************************************************)
\* C8: the periods that parseRoadmapText returns have the indices 0..N-1 in
\* declaration order, with no gap and no duplicate, also when they are
\* declared on several lines or in several period sections; the periods
\* declared so far have them after every line.
C8_PeriodIndices ==
    /\ \A i \in 1..Len(timePeriods) : timePeriods[i].index = i - 1
    /\ Parsed => \A i \in 1..Len(data.timePeriods) : data.timePeriods[i].index = i - 1

C8_Witness ==
    /\ Parsed
    /\ text = InterleavedText
    /\ Len(data.timePeriods) = 5
    /\ data.timePeriods[5].label = <<"Q", "5">>
    /\ data.timePeriods[5].index = 4

TitleLines == SelectSeq(LinesOf(text), IsTitleLine)

IsSwimlaneHeader(line) == IsPrefixedHeader(line) \/ IsGenericHeader(line)

\* The item lines ("- ...") that come before every swimlane header.
ItemLinesBeforeSwimlane ==
    {k \in 1..Len(LinesOf(text)) :
        /\ startsWith(LinesOf(text)[k], <<"-">>)
        /\ \A j \in 1..(k - 1) : ~IsSwimlaneHeader(LinesOf(text)[j])}

\* C10: an item line that appears while no swimlane has been opened is not
\* lost: the document has a swimlane with id "swimlane-default" and label
\* "Default" that holds the item.
C10_DefaultSwimlane ==
    (Parsed /\ ItemLinesBeforeSwimlane # {}) =>
        \E l \in 1..Len(data.swimlanes) :
            /\ data.swimlanes[l].id = DefaultSwimlaneId
            /\ data.swimlanes[l].label = DefaultLabel
            /\ Len(data.swimlanes[l].items) >= Cardinality(ItemLinesBeforeSwimlane)

\* The four quarters, written out: ids equal to labels, indices 0..3.
FourQuarters ==
    << [id |-> <<"Q", "1">>, label |-> <<"Q", "1">>, index |-> 0],
       [id |-> <<"Q", "2">>, label |-> <<"Q", "2">>, index |-> 1],
       [id |-> <<"Q", "3">>, label |-> <<"Q", "3">>, index |-> 2],
       [id |-> <<"Q", "4">>, label |-> <<"Q", "4">>, index |-> 3] >>

\* C11: when parseRoadmapText returns, the document has the four default
\* periods Q1..Q4 (ids equal to labels, indices 0..3) if the lines declared
\* no period, and exactly the declared periods otherwise; so the returned
\* period list is never empty.
C11_DefaultPeriods ==
    [][(parsePc = "loop" /\ parsePc' = "done") =>
          /\ timePeriods = <<>> => data'.timePeriods = FourQuarters
          /\ timePeriods # <<>> => data'.timePeriods = timePeriods
          /\ data'.timePeriods # <<>>]_vars

C11_Witness ==
    /\ Parsed
    /\ Len(LinesOf(text)) = MaxLines
    /\ \E k \in 1..Len(LinesOf(text)) : IsPeriodsHeader(LinesOf(text)[k])
    /\ data.timePeriods = FourQuarters

Reparsed == Parsed /\ "roadmapDataToText" \in called

\* C16: round trip: the text of a parsed document, parsed again, has the
\* same period labels, the same swimlane labels in the same order, the same
\* item titles in every swimlane, and resolves every item to the same
\* startIndex and endIndex as the first parse.
C16_RoundTrip ==
    Reparsed =>
        LET again == resolveRoadmap(data)
        IN  /\ Len(again.timePeriods) = Len(resolved.timePeriods)
            /\ \A i \in 1..Len(resolved.timePeriods) :
                   again.timePeriods[i].label = resolved.timePeriods[i].label
            /\ Len(again.swimlanes) = Len(resolved.swimlanes)
            /\ \A l \in 1..Len(resolved.swimlanes) :
                   /\ again.swimlanes[l].label = resolved.swimlanes[l].label
                   /\ Len(again.swimlanes[l].items) = Len(resolved.swimlanes[l].items)
                   /\ \A k \in 1..Len(resolved.swimlanes[l].items) :
                          /\ again.swimlanes[l].items[k].title
                                 = resolved.swimlanes[l].items[k].title
                          /\ again.swimlanes[l].items[k].startIndex
                                 = resolved.swimlanes[l].items[k].startIndex
                          /\ again.swimlanes[l].items[k].endIndex
                                 = resolved.swimlanes[l].items[k].endIndex

ParsedAgain == Parsed /\ "sameTextAgain" \in called

\* C21: parse and resolve keep no state between calls: a second call of
\* resolveRoadmap(parseRoadmapText(text)) on the same text gives the result
\* of the first, with the same item ids and the same colors, because the
\* item counter and the color counter start from 0 in every call.
C21_SameResult == ParsedAgain => resolveRoadmap(data) = resolved

C21_Witness ==
    /\ ParsedAgain
    /\ itemCounter = 2
    /\ resolveRoadmap(data) = resolved
    /\ \E l \in 1..Len(resolved.swimlanes) :
           /\ Len(resolved.swimlanes[l].items) = 2
           /\ resolved.swimlanes[l].items[2].id = ItemId(1)
           /\ resolved.swimlanes[l].items[2].color = COLORS[2]

\* The `## ` headers other than the period headers, among the lines that the
\* loop has processed.
SwimlaneHeadersSoFar ==
    LET OpensSwimlane(line) == IsHeaderLine(line) /\ HeaderOf(line) \notin PeriodHeaders
    IN  SelectSeq(SubSeq(LinesOf(text), 1, lineIdx), OpensSwimlane)

\* C22: every `## ` header that is not one of the period headers appends
\* exactly one new swimlane, also when its label equals the label of an
\* earlier swimlane; the swimlanes are in header order and their ids are
\* pairwise distinct, after every line and in the returned document.
C22_SwimlanePerHeader ==
    /\ Len(swimlanes) = Len(SwimlaneHeadersSoFar)
    /\ \A k \in 1..Len(swimlanes) :
           swimlanes[k].label =
               IF IsPrefixedHeader(SwimlaneHeadersSoFar[k])
               THEN PrefixedLabel(SwimlaneHeadersSoFar[k])
               ELSE trim(slice(SwimlaneHeadersSoFar[k], 3))
    /\ \A j, k \in 1..Len(swimlanes) : j # k => swimlanes[j].id # swimlanes[k].id
    /\ Parsed =>
           /\ Len(data.swimlanes) = Len(swimlanes)
           /\ \A k \in 1..Len(swimlanes) :
                  /\ data.swimlanes[k].id = swimlanes[k].id
                  /\ data.swimlanes[k].label = swimlanes[k].label

C22_Witness ==
    /\ Parsed
    /\ Len(data.swimlanes) = 2
    /\ data.swimlanes[1].label = data.swimlanes[2].label
    /\ data.swimlanes[1].id = SwimlaneId(0)
    /\ data.swimlanes[2].id = SwimlaneId(1)

\* C23: item ids are sequential over the whole document: the n-th item in
\* document order, counted from 0 across all swimlanes, has the id item-n,
\* so the ids are pairwise distinct, increase in document order and do not
\* restart in a new swimlane; this holds after every line and in the
\* returned document.
C23_SequentialItemIds ==
    LET Sequential(lanes) ==
            \A l \in 1..Len(lanes) :
                \A k \in 1..Len(lanes[l].items) :
                    lanes[l].items[k].id =
                        <<"i", "t", "e", "m", "-">> \o IntToStr(ItemsBefore(lanes, l) + k - 1)
    IN  /\ Sequential(swimlanes)
        /\ itemCounter = ItemsBefore(swimlanes, Len(swimlanes) + 1)
        /\ Parsed => Sequential(data.swimlanes)

C23_Witness ==
    /\ Parsed
    /\ Len(data.swimlanes) = 2
    /\ Len(data.swimlanes[1].items) = 1
    /\ Len(data.swimlanes[2].items) = 1
    /\ data.swimlanes[1].items[1].id = ItemId(0)
    /\ data.swimlanes[2].items[1].id = ItemId(1)

\* The places of the items of a document.
ItemPlaces(doc) ==
    UNION {{<<l, k>> : k \in 1..Len(doc.swimlanes[l].items)} : l \in 1..Len(doc.swimlanes)}

ItemOf(doc, a) == doc.swimlanes[a[1]].items[a[2]]

Owned(doc) ==
    /\ \A a \in ItemPlaces(doc) : ItemOf(doc, a).swimlane = doc.swimlanes[a[1]].id
    /\ \A a, b \in ItemPlaces(doc) : ItemOf(doc, a).id = ItemOf(doc, b).id => a = b
    /\ \A l, m \in 1..Len(doc.swimlanes) :
           doc.swimlanes[l].id = doc.swimlanes[m].id => l = m

\* data is the document a move has just produced.
JustMoved == "handleItemMove" \in called /\ parsePc = "loop"

\* C29: every item is owned by exactly one swimlane.  In a document that
\* parseRoadmapText returned, and in the document handleItemMove serializes
\* after a move of the preview, every item is in one item list only and its
\* swimlane field is the id of the swimlane of that list; the move keeps the
\* number of items, and the swimlane of every item but the moved one.
C29_OneOwner ==
    /\ []((Parsed /\ parsePc = "done") => Owned(data))
    /\ [][("handleItemMove" \notin called /\ "handleItemMove" \in called') =>
              /\ Owned(data')
              /\ Cardinality(ItemPlaces(data')) = Cardinality(ItemPlaces(data))
              /\ \E moved \in ItemPlaces(data) :
                     \A a \in ItemPlaces(data) \ {moved} :
                         \E b \in ItemPlaces(data') :
                             /\ ItemOf(data', b).id = ItemOf(data, a).id
                             /\ ItemOf(data', b).swimlane = ItemOf(data, a).swimlane]_vars

\* A move across swimlanes: the first item of the document now comes after
\* the second, in the swimlane of the second or in a later one, with that
\* swimlane's id.
C29_Witness ==
    /\ JustMoved
    /\ Cardinality(ItemPlaces(data)) = 2
    /\ \E a, b \in ItemPlaces(data) :
           /\ a[1] < b[1] \/ (a[1] = b[1] /\ a[2] < b[2])
           /\ ItemOf(data, a).id = <<"i", "t", "e", "m", "-", "1">>
           /\ ItemOf(data, b).id = <<"i", "t", "e", "m", "-", "0">>
           /\ ItemOf(data, b).swimlane = data.swimlanes[b[1]].id

(***************************************************************************)
(* Row packing (renderer.ts).                                              *)
(***************************************************************************)
Item(id, s, e) == [id |-> id, startIndex |-> s, endIndex |-> e]

\* [...items].sort((a, b) => a.startIndex - b.startIndex): Array.prototype.sort
\* is stable, so x goes behind every element that does not start after it.
RECURSIVE InsertByStart(_, _)
InsertByStart(sorted, x) ==
    IF sorted = <<>> THEN <<x>>
    ELSE LET last == sorted[Len(sorted)]
         IN  IF last.startIndex - x.startIndex <= 0
             THEN Append(sorted, x)
             ELSE Append(InsertByStart(SubSeq(sorted, 1, Len(sorted) - 1), x), last)

RECURSIVE SortByStart(_)
SortByStart(list) ==
    IF list = <<>> THEN <<>>
    ELSE InsertByStart(SortByStart(SubSeq(list, 1, Len(list) - 1)), list[Len(list)])

\* rows[r].end <= item.startIndex
RowFitsLt(rowEnd, start) == rowEnd < start
RowFitsAlways(rowEnd, start) == TRUE
RowFits(rowEnd, start) == rowEnd <= start

\* The inner for loop: the first r with a fitting row, 0 when there is none
\* (rows are numbered from 1 here, from 0 in the result).
FirstFit(rows, start) ==
    LET fits == {r \in 1..Len(rows) : RowFits(rows[r], start)}
    IN  IF fits = {} THEN 0 ELSE CHOOSE r \in fits : \A q \in fits : r <= q

\* The outer for loop of assignItemRows over the sorted items.
RECURSIVE AssignLoop(_, _, _)
AssignLoop(sorted, rows, result) ==
    IF sorted = <<>> THEN result
    ELSE LET item == Head(sorted)
             r == FirstFit(rows, item.startIndex)
         IN  IF r # 0
             THEN AssignLoop(Tail(sorted), [rows EXCEPT ![r] = item.endIndex],
                             Append(result, [item |-> item, row |-> r - 1]))
             ELSE AssignLoop(Tail(sorted), Append(rows, item.endIndex),
                             Append(result, [item |-> item, row |-> Len(rows)]))

assignItemRows(list) == AssignLoop(SortByStart(list), <<>>, <<>>)

\* The loop of calculateItemRows: the same packing, keeping the rows only.
CalcRowFits(rowEnd, start) == rowEnd <= start

RECURSIVE CalcLoop(_, _)
CalcLoop(sorted, rows) ==
    IF sorted = <<>> THEN rows
    ELSE LET item == Head(sorted)
             fits == {r \in 1..Len(rows) : CalcRowFits(rows[r], item.startIndex)}
         IN  IF fits # {}
             THEN CalcLoop(Tail(sorted),
                           [rows EXCEPT ![CHOOSE r \in fits : \A q \in fits : r <= q]
                                            = item.endIndex])
             ELSE CalcLoop(Tail(sorted), Append(rows, item.endIndex))

Max2(a, b) == IF a >= b THEN a ELSE b

\* A count that does not look at the items.
calculateOneRow(list) == 1

calculateItemRows(list) ==
    IF Len(list) = 0 THEN 1
    ELSE Max2(Len(CalcLoop(SortByStart(list), <<>>)), 1)

\* assignItemRows of the interactive preview: the for loop over sortedItems
\* with `rows[r].end <= item.startIndex`.
RECURSIVE PreviewAssignLoop(_, _, _)
PreviewAssignLoop(sorted, rows, result) ==
    IF sorted = <<>> THEN result
    ELSE LET Placed(item, fits) ==
                 IF fits # {}
                 THEN [rows |-> [rows EXCEPT ![CHOOSE r \in fits : \A q \in fits : r <= q]
                                                  = item.endIndex],
                       row |-> (CHOOSE r \in fits : \A q \in fits : r <= q) - 1]
                 ELSE [rows |-> Append(rows, item.endIndex), row |-> Len(rows)]
             Step(item, placed) ==
                 PreviewAssignLoop(Tail(sorted), placed.rows,
                                   Append(result, [item |-> item, row |-> placed.row]))
             Fits(item) == {r \in 1..Len(rows) : rows[r] <= item.startIndex}
             Next(item) == Step(item, Placed(item, Fits(item)))
         IN  Next(Head(sorted))

previewAssignItemRows(list) == PreviewAssignLoop(SortByStart(list), <<>>, <<>>)

\* A row test of the diagram export that asks for a gap after the row's end.
ExportRowFitsLt(rowEnd, start) == rowEnd < start

\* assignRows of the diagram export: rows[r].end <= item.startIndex
ExportRowFits(rowEnd, start) == rowEnd <= start

\* assignRows of the diagram export: the for loop over sortedItems.
RECURSIVE ExportAssignLoop(_, _, _)
ExportAssignLoop(sorted, rows, result) ==
    IF sorted = <<>> THEN result
    ELSE LET Placed(item, fits) ==
                 IF fits # {}
                 THEN [rows |-> [rows EXCEPT ![CHOOSE r \in fits : \A q \in fits : r <= q]
                                                  = item.endIndex],
                       row |-> (CHOOSE r \in fits : \A q \in fits : r <= q) - 1]
                 ELSE [rows |-> Append(rows, item.endIndex), row |-> Len(rows)]
             Step(item, placed) ==
                 ExportAssignLoop(Tail(sorted), placed.rows,
                                  Append(result, [item |-> item, row |-> placed.row]))
             Fits(item) == {r \in 1..Len(rows) : ExportRowFits(rows[r], item.startIndex)}
             Next(item) == Step(item, Placed(item, Fits(item)))
         IN  Next(Head(sorted))

\* calculateRows and assignRows of the diagram export
calculateRows(list) ==
    IF Len(list) = 0 THEN 1
    ELSE Max2(Len(CalcLoop(SortByStart(list), <<>>)), 1)

assignRows(list) == ExportAssignLoop(SortByStart(list), <<>>, <<>>)

(***************************************************************************)
(* The row packing as a state machine: a list of items is given, and the   *)
(* renderer calls calculateItemRows and assignItemRows on it.              *)
(***************************************************************************)
Intervals == {<<s, e>> \in (0..MaxIndex) \X (0..MaxIndex) : s < e}

ItemLists ==
    UNION {{[i \in 1..n |-> Item(i - 1, f[i][1], f[i][2])] : f \in [1..n -> Intervals]}
           : n \in 0..MaxItems}

PackInit ==
    /\ items \in ItemLists
    /\ packed = <<>>
    /\ rowCount = 0
    /\ previewPacked = <<>>
    /\ exportPacked = <<>>
    /\ called = {}
    /\ DragIdle
    /\ EvalIdle
    /\ ResolveIdle
    /\ ParseIdle
    /\ RenderIdle

AssignItemRowsCall ==
    /\ "assignItemRows" \notin called
    /\ packed' = assignItemRows(items)
    /\ called' = called \cup {"assignItemRows"}
    /\ UNCHANGED <<dragVars, items, rowCount, previewPacked, exportPacked, evalVars, resolveVars,
                   parseVars, renderVars>>

CalculateItemRowsCall ==
    /\ "calculateItemRows" \notin called
    /\ rowCount' = calculateItemRows(items)
    /\ called' = called \cup {"calculateItemRows"}
    /\ UNCHANGED <<dragVars, items, packed, previewPacked, exportPacked, evalVars, resolveVars,
                   parseVars, renderVars>>

PreviewAssignItemRowsCall ==
    /\ "previewAssignItemRows" \notin called
    /\ previewPacked' = previewAssignItemRows(items)
    /\ called' = called \cup {"previewAssignItemRows"}
    /\ UNCHANGED <<dragVars, items, packed, rowCount, exportPacked, evalVars, resolveVars,
                   parseVars, renderVars>>

AssignRowsCall ==
    /\ "assignRows" \notin called
    /\ exportPacked' = assignRows(items)
    /\ called' = called \cup {"assignRows"}
    /\ UNCHANGED <<dragVars, items, packed, rowCount, previewPacked, evalVars, resolveVars,
                   parseVars, renderVars>>

PackNext ==
    \/ AssignItemRowsCall
    \/ CalculateItemRowsCall
    \/ PreviewAssignItemRowsCall
    \/ AssignRowsCall

SpecPack == PackInit /\ [][PackNext]_vars

(***************************************************************************)
(* Properties of the row packing.                                          *)
(***************************************************************************)
Packed == "assignItemRows" \in called
Counted == "calculateItemRows" \in called

Overlap(a, b) == a.startIndex < b.endIndex /\ b.startIndex < a.endIndex

\* C1: any two distinct items that assignItemRows places in the same row
\* have disjoint half-open ranges [startIndex, endIndex).
C1_NoOverlapInRow ==
    Packed =>
        \A i, j \in 1..Len(packed) :
            (i # j /\ packed[i].row = packed[j].row)
                => ~Overlap(packed[i].item, packed[j].item)

C1_Witness ==
    /\ Packed
    /\ \E i, j \in 1..Len(packed) :
          /\ i # j
          /\ packed[i].row = packed[j].row
          /\ packed[i].item.endIndex = packed[j].item.startIndex
    /\ \E i, j \in 1..Len(packed) : packed[i].row # packed[j].row

\* The largest number of items whose ranges contain one common point, by
\* brute force: a largest set of overlapping ranges contains the start of
\* one of its members.
PreviewPacked == "previewAssignItemRows" \in called
ExportPacked == "assignRows" \in called

\* C25: the three copies of the row packing (assignItemRows of the SVG
\* renderer, assignItemRows of the interactive preview, assignRows of the
\* diagram export) return the same item order and the same row for every
\* item on every list, and each copy returns the assignment it returned
\* before when it is run again on the same list.
C25_SameAssignment ==
    /\ (Packed /\ PreviewPacked) => previewPacked = packed
    /\ (Packed /\ ExportPacked) => exportPacked = packed
    /\ (PreviewPacked /\ ExportPacked) => exportPacked = previewPacked
    /\ Packed => assignItemRows(items) = packed
    /\ PreviewPacked => previewAssignItemRows(items) = previewPacked
    /\ ExportPacked => assignRows(items) = exportPacked

C25_Witness ==
    /\ Packed /\ PreviewPacked /\ ExportPacked
    /\ Len(items) = 3
    /\ items[1].startIndex > items[2].startIndex
    /\ \E i, j \in 1..3 : i # j /\ exportPacked[i].row = exportPacked[j].row
    /\ \E i \in 1..3 : exportPacked[i].row = 1
    /\ exportPacked = packed
    /\ previewPacked = packed

MaxOverlap(list) ==
    LET at(p) == Cardinality({i \in 1..Len(list) :
                     list[i].startIndex <= p /\ p < list[i].endIndex})
        counts == {at(list[i].startIndex) : i \in 1..Len(list)} \cup {0}
    IN  CHOOSE m \in counts : \A c \in counts : c <= m

RowsUsed(result) == {result[i].row : i \in 1..Len(result)}

\* C2: the number of distinct rows assignItemRows uses, and the count
\* calculateItemRows returns for a non-empty list, equal the maximum number
\* of items overlapping at one point.
C2_RowCountOptimal ==
    /\ Packed => Cardinality(RowsUsed(packed)) = MaxOverlap(items)
    /\ (Counted /\ Len(items) > 0) => rowCount = MaxOverlap(items)

C2_Witness ==
    /\ Packed
    /\ Counted
    /\ Len(items) = 3
    /\ MaxOverlap(items) = 2
    /\ rowCount = 2

\* The end of the last item placed in row r among the first k - 1 results.
LastEndInRow(result, k, r) ==
    LET placed == {i \in 1..(k - 1) : result[i].row = r}
        last == CHOOSE i \in placed : \A q \in placed : q <= i
    IN  result[last].item.endIndex

\* C3: in ascending startIndex order each item gets the lowest row whose
\* last placed item ends at or before the item's start, and the next new
\* row only when there is no such row; [0,2), [0,2), [2,3) get rows 0, 1, 0.
C3_FirstFit ==
    Packed =>
        /\ \A k \in 1..(Len(packed) - 1) :
              packed[k].item.startIndex <= packed[k + 1].item.startIndex
        /\ \A k \in 1..Len(packed) :
              LET opened == {packed[i].row : i \in 1..(k - 1)}
                  free == {r \in opened :
                              LastEndInRow(packed, k, r) <= packed[k].item.startIndex}
              IN  /\ opened = 0..(Cardinality(opened) - 1)
                  /\ IF free # {}
                     THEN packed[k].row \in free /\ \A r \in free : packed[k].row <= r
                     ELSE packed[k].row = Cardinality(opened)
        /\ items = <<Item(0, 0, 2), Item(1, 0, 2), Item(2, 2, 3)>>
              => <<packed[1].row, packed[2].row, packed[3].row>> = <<0, 1, 0>>

C3_Witness ==
    /\ items = <<Item(0, 0, 2), Item(1, 0, 2), Item(2, 2, 3)>>
    /\ Packed
    /\ packed[3].row = 0

(***************************************************************************)
(* Layout (renderer.ts, Tutorial.tsx).  Horizontal pixel values are exact  *)
(* rationals, because renderToSVG divides the content width by the number  *)
(* of periods; vertical ones are integers.  Of the options only the ones   *)
(* that enter the geometry are kept (fontSize stands for the others).      *)
(***************************************************************************)
DEFAULT_OPTIONS ==
    [width |-> 1200, headerHeight |-> 50, swimlaneHeight |-> 100, itemHeight |-> 36,
     itemMargin |-> 8, periodPadding |-> 10, leftLabelWidth |-> 150, fontSize |-> 14]

\* DEFAULT_OPTIONS of InteractiveSVGPreview
PREVIEW_DEFAULT_OPTIONS ==
    [periodWidth |-> 150, headerHeight |-> 50, swimlaneHeight |-> 100, itemHeight |-> 36,
     itemMargin |-> 8, periodPadding |-> 10, leftLabelWidth |-> 150, fontSize |-> 14]

\* { ...DEFAULT_OPTIONS, ...options }
MergedOptions(defaults, given) ==
    [f \in DOMAIN defaults \cup DOMAIN given |->
        IF f \in DOMAIN given THEN given[f] ELSE defaults[f]]

\* The height with one margin below the rows only.
SwimlaneHeightOneMargin(rows, opts) ==
    Max2(opts.swimlaneHeight, rows * (opts.itemHeight + opts.itemMargin) + opts.itemMargin)

\* Math.max(opts.swimlaneHeight, rows * (itemHeight + itemMargin) + itemMargin * 2)
SwimlaneHeight(rows, opts) ==
    Max2(opts.swimlaneHeight,
         rows * (opts.itemHeight + opts.itemMargin) + opts.itemMargin * 2)

\* currentY when the forEach reaches swimlane l: let currentY = headerHeight;
\* currentY += height after every swimlane.
RECURSIVE CurrentY(_, _, _)
CurrentY(headerHeight, heights, l) ==
    IF l = 1 THEN headerHeight
    ELSE CurrentY(headerHeight, heights, l - 1) + heights[l - 1]

\* startX, endX, itemWidth = Math.max(endX - startX, 50) and itemY of one item.
ItemRect(placed, currentY, periodWidth, opts) ==
    LET Edge(index) == Add(Whole(opts.leftLabelWidth), Mul(Whole(index), periodWidth))
        AtLeast50(between) == IF NumLt(between, Whole(50)) THEN Whole(50) ELSE between
        startX == Add(Edge(placed.item.startIndex), Whole(opts.periodPadding))
        endX == Sub(Edge(placed.item.endIndex), Whole(opts.periodPadding))
    IN  [id |-> placed.item.id,
         row |-> placed.row,
         x |-> startX,
         y |-> currentY + opts.itemMargin + placed.row * (opts.itemHeight + opts.itemMargin),
         width |-> AtLeast50(Sub(endX, startX)),
         height |-> opts.itemHeight]

\* The rectangles of one swimlane: assignItemRows(swimlane.items).forEach(...)
SwimlaneRects(itemsWithRows, currentY, periodWidth, opts) ==
    [k \in 1..Len(itemsWithRows) |->
        ItemRect(itemsWithRows[k], currentY, periodWidth, opts)]

\* The geometry renderToSVG writes: the column of every period (its
\* separator at x, its label centred at x + periodWidth / 2, inside the
\* header rectangle of height headerHeight), the band of every swimlane (its
\* label centred in the left column of width leftLabelWidth) and the
\* rectangle of every item.
renderToSVG(rm, given) ==
    LET Geometry(opts, periodWidth, heights) ==
            [swimlaneHeights |-> heights,
             periods |->
                 [i \in 1..Len(rm.timePeriods) |->
                     [x |-> Add(Whole(opts.leftLabelWidth), Mul(Whole(i - 1), periodWidth)),
                      y |-> 0, width |-> periodWidth, height |-> opts.headerHeight]],
             swimlanes |->
                 [l \in 1..Len(rm.swimlanes) |->
                     [x |-> Whole(0), y |-> CurrentY(opts.headerHeight, heights, l),
                      width |-> Whole(opts.leftLabelWidth), height |-> heights[l]]],
             items |->
                 [l \in 1..Len(rm.swimlanes) |->
                     SwimlaneRects(assignItemRows(rm.swimlanes[l].items),
                                   CurrentY(opts.headerHeight, heights, l),
                                   periodWidth, opts)]]
        Heights(opts) ==
            [l \in 1..Len(rm.swimlanes) |->
                SwimlaneHeight(calculateItemRows(rm.swimlanes[l].items), opts)]
        Rendered(opts) ==
            Geometry(opts,
                     Div(Whole(opts.width - opts.leftLabelWidth),
                         Whole(Max2(Len(rm.timePeriods), 1))),
                     Heights(opts))
    IN  Rendered(MergedOptions(DEFAULT_OPTIONS, given))

\* swimlaneHeights, swimlanePositions and itemPositions of
\* InteractiveSVGPreview; itemPositions is a Map keyed by item.id, so a later
\* item replaces an earlier one of the same id.
InteractiveSVGPreview(rm, given) ==
    LET Keys(rects) ==
            UNION {{<<l, k>> : k \in 1..Len(rects[l])} : l \in 1..Len(rm.swimlanes)}
        Later(a, b) == a[1] > b[1] \/ (a[1] = b[1] /\ a[2] >= b[2])
        Position(rect, swimlane) ==
            [x |-> rect.x, y |-> rect.y, width |-> rect.width, height |-> rect.height,
             row |-> rect.row, swimlaneId |-> swimlane.id]
        LastSet(rects, places, id) ==
            CHOOSE a \in places :
                /\ rects[a[1]][a[2]].id = id
                /\ \A b \in places : rects[b[1]][b[2]].id = id => Later(a, b)
        PositionAt(rects, a) == Position(rects[a[1]][a[2]], rm.swimlanes[a[1]])
        Positions(opts, heights, rects, places) ==
            [swimlaneHeights |-> heights,
             swimlanePositions |->
                 [l \in 1..Len(rm.swimlanes) |->
                     [id |-> rm.swimlanes[l].id,
                      y |-> CurrentY(opts.headerHeight, heights, l),
                      height |-> heights[l]]],
             itemPositions |->
                 [id \in {rects[a[1]][a[2]].id : a \in places} |->
                     PositionAt(rects, LastSet(rects, places, id))]]
        Rects(opts, heights) ==
            [l \in 1..Len(rm.swimlanes) |->
                SwimlaneRects(previewAssignItemRows(rm.swimlanes[l].items),
                              CurrentY(opts.headerHeight, heights, l),
                              Whole(opts.periodWidth), opts)]
        WithRects(opts, heights, rects) == Positions(opts, heights, rects, Keys(rects))
        Heights(opts) ==
            [l \in 1..Len(rm.swimlanes) |->
                Max2(opts.swimlaneHeight,
                     calculateItemRows(rm.swimlanes[l].items)
                         * (opts.itemHeight + opts.itemMargin) + opts.itemMargin * 2)]
        Sized(opts, heights) == WithRects(opts, heights, Rects(opts, heights))
        Laid(opts) == Sized(opts, Heights(opts))
    IN  Laid(MergedOptions(PREVIEW_DEFAULT_OPTIONS, given))

\* A numbering that starts at the reserved ids.
CellIdFromZero(position) == position - 1

\* let cellId = 2; createCell(cellId++, ...): the id of the cell pushed at
\* the given position of cells.
CellIdAt(position) == 2 + (position - 1)

\* generateDrawioXml: the cells in the order they are pushed; of is the
\* period, swimlane or item the cell was created for.
generateDrawioXml(rm) ==
    LET cellWidth == 150
        headerHeight == 40
        swimlaneHeight == 80
        itemHeight == 30
        leftLabelWidth == 120
        heights == [l \in 1..Len(rm.swimlanes) |->
                       Max2(swimlaneHeight,
                            calculateRows(rm.swimlanes[l].items) * (itemHeight + 10) + 20)]
        Cell(kind, of, x, y, width, height) ==
            [kind |-> kind, of |-> of, x |-> x, y |-> y, width |-> width, height |-> height]
        ItemCell(placed, currentY) ==
            Cell("item", placed.item.id,
                 leftLabelWidth + placed.item.startIndex * cellWidth + 5,
                 currentY + 10 + placed.row * (itemHeight + 10),
                 (placed.item.endIndex - placed.item.startIndex) * cellWidth - 10,
                 itemHeight)
        ItemCells(itemsWithRows, currentY) ==
            [k \in 1..Len(itemsWithRows) |-> ItemCell(itemsWithRows[k], currentY)]
        SwimlaneCells(l, currentY) ==
            <<Cell("swimlane", l, 0, currentY, leftLabelWidth, heights[l])>>
                \o ItemCells(assignRows(rm.swimlanes[l].items), currentY)
        AllCells[l \in 0..Len(rm.swimlanes)] ==
            IF l = 0
            THEN [i \in 1..Len(rm.timePeriods) |->
                     Cell("period", i, leftLabelWidth + (i - 1) * cellWidth, 0,
                          cellWidth, headerHeight)]
            ELSE AllCells[l - 1] \o SwimlaneCells(l, CurrentY(headerHeight, heights, l))
        WithIds(cells) ==
            [p \in 1..Len(cells) |->
                [f \in DOMAIN cells[p] \cup {"id"} |->
                    IF f = "id" THEN CellIdAt(p) ELSE cells[p][f]]]
    IN  WithIds(AllCells[Len(rm.swimlanes)])

(***************************************************************************)
(* The renderers as a state machine: a resolved roadmap and the options    *)
(* are given, and the SVG renderer, the interactive preview and the        *)
(* diagram export lay the roadmap out, each once, in any order.            *)
(***************************************************************************)
\* The lists of at most two items of the row packing.
RenderItemLists == {list \in ItemLists : Len(list) <= 2}

\* The swimlanes after the first: none, or up to MaxLanes - 1 swimlanes that
\* are empty or hold two items that need two rows.
LaterLanes ==
    UNION {[1..n -> {<<>>, <<Item(0, 0, 2), Item(1, 1, 3)>>}] : n \in 0..(MaxLanes - 1)}

\* Items get the ids of the parser's running counter: unique in the document.
RoadmapOf(periodCount, lanes) ==
    [timePeriods |-> SubSeq(DefaultPeriods, 1, periodCount),
     swimlanes |->
         [l \in 1..Len(lanes) |->
             [id |-> SwimlaneId(l - 1),
              label |-> <<"L">>,
              items |-> [k \in 1..Len(lanes[l]) |->
                            Item((l - 1) * MaxItems + k - 1,
                                 lanes[l][k].startIndex, lanes[l][k].endIndex)]]],
     title |-> Undefined]

Roadmaps ==
    {RoadmapOf(n, <<first>> \o later) :
        n \in {1, Len(DefaultPeriods)}, first \in RenderItemLists, later \in LaterLanes}

\* The options the application passes are periodWidth and itemHeight
\* (periodWidth >= 50, itemHeight >= 20); the renderers take any.
OptionSets ==
    { [fontSize |-> 14],
      [periodWidth |-> 50, width |-> 310],
      [swimlaneHeight |-> 20, itemMargin |-> 4],
      [periodPadding |-> 0, itemHeight |-> 20],
      [swimlaneHeight |-> 0, itemMargin |-> 0, headerHeight |-> 0] }

RenderInit ==
    /\ roadmap \in Roadmaps
    /\ options \in OptionSets
    /\ svg = NotRendered
    /\ preview = NotRendered
    /\ drawio = NotRendered
    /\ called = {}
    /\ DragIdle
    /\ PackIdle
    /\ EvalIdle
    /\ ResolveIdle
    /\ ParseIdle

RenderToSVGCall ==
    /\ "renderToSVG" \notin called
    /\ svg' = renderToSVG(roadmap, options)
    /\ called' = called \cup {"renderToSVG"}
    /\ UNCHANGED <<dragVars, roadmap, options, preview, drawio, packVars, evalVars, resolveVars,
                   parseVars>>

InteractiveSVGPreviewCall ==
    /\ "InteractiveSVGPreview" \notin called
    /\ preview' = InteractiveSVGPreview(roadmap, options)
    /\ called' = called \cup {"InteractiveSVGPreview"}
    /\ UNCHANGED <<dragVars, roadmap, options, svg, drawio, packVars, evalVars, resolveVars,
                   parseVars>>

GenerateDrawioXmlCall ==
    /\ "generateDrawioXml" \notin called
    /\ drawio' = generateDrawioXml(roadmap)
    /\ called' = called \cup {"generateDrawioXml"}
    /\ UNCHANGED <<dragVars, roadmap, options, svg, preview, packVars, evalVars, resolveVars,
                   parseVars>>

RenderNext == RenderToSVGCall \/ InteractiveSVGPreviewCall \/ GenerateDrawioXmlCall

SpecRender == RenderInit /\ [][RenderNext]_vars

(***************************************************************************)
(* The drag and drop of InteractiveSVGPreview (renderer.ts) as a state     *)
(* machine: the component has rendered a roadmap, and the mouse handlers   *)
(* of its svg element and of its item rectangles run one after the other.  *)
(* A pointer position is given in SVG coordinates (getSVGCoordinates).     *)
(***************************************************************************)
Min2(a, b) == IF a <= b THEN a ELSE b

\* Math.floor of a finite number
Floor(x) == x.n \div x.d

\* snapToHalf = Math.round(value): the nearest integer, a half goes up.
snapToHalf(value) == (2 * value.n + value.d) \div (2 * value.d)

\* Math.max(0, Math.min(Math.floor(relativeX / periodWidth), periods - 1))
getPeriodFromX(x, opts, periodCount) ==
    Max2(0, Min2(Floor(Div(Sub(x, Whole(opts.leftLabelWidth)), Whole(opts.periodWidth))),
                 periodCount - 1))

\* Math.max(0, Math.min(relativeX / periodWidth, periods))
getExactPeriodFromX(x, opts, periodCount) ==
    LET exactPeriod == Div(Sub(x, Whole(opts.leftLabelWidth)), Whole(opts.periodWidth))
        AtMost(value) == IF NumLt(Whole(periodCount), value) THEN Whole(periodCount) ELSE value
        AtLeast0(value) == IF NumLt(value, Whole(0)) THEN Whole(0) ELSE value
    IN  AtLeast0(AtMost(exactPeriod))

\* The id of the first swimlane with y >= pos.y && y < pos.y + pos.height
getSwimlaneFromY(y, swimlanePositions) ==
    LET Under == {l \in 1..Len(swimlanePositions) :
                      /\ y >= swimlanePositions[l].y
                      /\ y < swimlanePositions[l].y + swimlanePositions[l].height}
    IN  IF Under = {} THEN Null
        ELSE [id |-> swimlanePositions[CHOOSE l \in Under : \A m \in Under : l <= m].id]

\* A resize that is reported whatever the length.
AnyLength(newLength) == TRUE

\* if (newLength >= 1) onItemResize(...)
LengthOk(newLength) == newLength >= 1

DragModes == {"move", "resize-start", "resize-end"}

\* The roadmaps of the drag: two swimlanes, one with an item that starts
\* before the first period (start expression Q1-2), and a roadmap of one
\* period.
DragRoadmaps ==
    { RoadmapOf(4, << <<Item(0, 0, 2), Item(1, 1, 3)>>, <<Item(0, -2, -1)>> >>),
      RoadmapOf(4, << <<Item(0, 2, 4)>>, <<>> >>),
      RoadmapOf(1, << <<Item(0, 0, 1)>> >>) }

\* App.tsx passes periodWidth and itemHeight.
DragOptions == {[periodWidth |-> 150, itemHeight |-> 36], [periodWidth |-> 50, itemHeight |-> 20]}

\* Where the pointer is moved to: left of the first period, inside the
\* periods (at a half and near one) and right of the last; in the header, in
\* the swimlanes and below them.
MouseXs == {Whole(0), Whole(225), Whole(374), Whole(600), Whole(2000)}
MouseYs == {10, 100, 200, 5000}

DragInit ==
    /\ roadmap \in DragRoadmaps
    /\ options \in DragOptions
    /\ preview = InteractiveSVGPreview(roadmap, options)
    /\ svg = NotRendered
    /\ drawio = NotRendered
    /\ called = {"InteractiveSVGPreview"}
    /\ dragState = Null
    /\ dropTarget = Null
    /\ mouseEvent = "none"
    /\ callback = NoCall
    /\ handlers \in SUBSET {"onItemMove", "onItemResize"}
    /\ PackIdle
    /\ EvalIdle
    /\ ResolveIdle
    /\ ParseIdle

DragOpts == MergedOptions(PREVIEW_DEFAULT_OPTIONS, options)

\* handleMouseDown(e, item.id, swimlane.id, mode) of an item rectangle or of
\* one of its resize handles, the pointer at the corner of the rectangle.
HandleMouseDown ==
    /\ \E l \in 1..Len(roadmap.swimlanes), mode \in DragModes :
           \E k \in 1..Len(roadmap.swimlanes[l].items) :
               LET itemId == roadmap.swimlanes[l].items[k].id
                   pos == preview.itemPositions[itemId]
                   First(set) == CHOOSE a \in set : \A b \in set : a[1] < b[1] \/ (a[1] = b[1] /\ a[2] <= b[2])
                   findItem == ItemOf(roadmap, First({a \in ItemPlaces(roadmap) :
                                                         ItemOf(roadmap, a).id = itemId}))
               IN  IF \/ ("onItemMove" \notin handlers /\ mode = "move")
                      \/ ("onItemResize" \notin handlers /\ mode # "move")
                   THEN UNCHANGED dragState
                   ELSE dragState' =
                            [itemId |-> itemId,
                             swimlaneId |-> roadmap.swimlanes[l].id,
                             startX |-> pos.x, startY |-> pos.y,
                             currentX |-> pos.x, currentY |-> pos.y,
                             itemOriginalX |-> pos.x, itemOriginalY |-> pos.y,
                             mode |-> mode,
                             originalStartIndex |-> findItem.startIndex,
                             originalEndIndex |-> findItem.endIndex]
    /\ mouseEvent' = "down"
    /\ callback' = NoCall
    /\ UNCHANGED <<dropTarget, handlers, renderVars, called, packVars, evalVars,
                   resolveVars, parseVars>>

\* handleMouseMove: nothing without a drag; the pointer is recorded, and a
\* move gets its drop target from the period and the swimlane under it.
HandleMouseMove ==
    /\ \E x \in MouseXs, y \in MouseYs :
           IF IsNull(dragState) THEN UNCHANGED <<dragState, dropTarget>>
           ELSE /\ dragState' = [dragState EXCEPT !.currentX = x, !.currentY = y]
                /\ IF dragState.mode = "move"
                   THEN LET swimlaneId == getSwimlaneFromY(y, preview.swimlanePositions)
                        IN  dropTarget' =
                                IF IsNull(swimlaneId) THEN Null
                                ELSE [periodIndex |-> getPeriodFromX(x, DragOpts,
                                                          Len(roadmap.timePeriods)),
                                      swimlaneId |-> swimlaneId.id]
                   ELSE UNCHANGED dropTarget
    /\ mouseEvent' = "move"
    /\ callback' = NoCall
    /\ UNCHANGED <<handlers, renderVars, called, packVars, evalVars, resolveVars, parseVars>>

\* handleMouseUp: a move with a drop target calls onItemMove with the label
\* of the period; a resize snaps the pointer to a period, keeps the other
\* edge and calls onItemResize if the length is at least 1; then both
\* states are cleared.
HandleMouseUp ==
    /\ callback' =
           IF IsNull(dragState) THEN NoCall
           ELSE IF dragState.mode = "move" /\ ~IsNull(dropTarget) /\ "onItemMove" \in handlers
           THEN IF dropTarget.periodIndex + 1 \in DOMAIN roadmap.timePeriods
                THEN [name |-> "onItemMove",
                      itemId |-> dragState.itemId,
                      fromSwimlane |-> dragState.swimlaneId,
                      toSwimlane |-> dropTarget.swimlaneId,
                      newStartPeriod |-> roadmap.timePeriods[dropTarget.periodIndex + 1].label]
                ELSE NoCall
           ELSE IF dragState.mode \in {"resize-start", "resize-end"}
                   /\ "onItemResize" \in handlers
           THEN LET snappedPeriod ==
                        snapToHalf(getExactPeriodFromX(dragState.currentX, DragOpts,
                                                       Len(roadmap.timePeriods)))
                    newStartIndex ==
                        IF dragState.mode = "resize-start"
                        THEN Max2(0, Min2(snappedPeriod, dragState.originalEndIndex - 1))
                        ELSE dragState.originalStartIndex
                    newEndIndex ==
                        IF dragState.mode = "resize-start"
                        THEN dragState.originalEndIndex
                        ELSE Max2(dragState.originalStartIndex + 1,
                                  Min2(snappedPeriod, Len(roadmap.timePeriods)))
                IN  IF LengthOk(newEndIndex - newStartIndex)
                    THEN [name |-> "onItemResize",
                          itemId |-> dragState.itemId,
                          swimlaneId |-> dragState.swimlaneId,
                          newStartIndex |-> newStartIndex,
                          newLength |-> newEndIndex - newStartIndex]
                    ELSE NoCall
           ELSE NoCall
    /\ dragState' = Null
    /\ dropTarget' = Null
    /\ mouseEvent' = "up"
    /\ UNCHANGED <<handlers, renderVars, called, packVars, evalVars, resolveVars, parseVars>>

\* A mouse-leave that keeps the drag.
HandleMouseLeaveKeepsDrag ==
    /\ mouseEvent' = "leave"
    /\ callback' = NoCall
    /\ UNCHANGED <<dragState, dropTarget, handlers, renderVars, called, packVars, evalVars,
                   resolveVars, parseVars>>

\* handleMouseLeave: setDragState(null); setDropTarget(null)
HandleMouseLeave ==
    /\ dragState' = Null
    /\ dropTarget' = Null
    /\ mouseEvent' = "leave"
    /\ callback' = NoCall
    /\ UNCHANGED <<handlers, renderVars, called, packVars, evalVars, resolveVars, parseVars>>

DragNext == HandleMouseDown \/ HandleMouseMove \/ HandleMouseUp \/ HandleMouseLeave

SpecDrag == DragInit /\ [][DragNext]_vars

(***************************************************************************)
(* Properties of the drag and drop.                                        *)
(***************************************************************************)
\* C27: onItemMove and onItemResize are called only by a mouse-up that ends
\* a drag, and a drag begins only with a mouse-down and does not survive a
\* mouse-up or a mouse-leave, so there is at most one call per drag; a
\* mouse-leave calls nothing; after every mouse-up and every mouse-leave
\* the drag state and the drop target are null.
C27_CallOnDropOnly ==
    [][/\ callback'.name # "none" =>
              mouseEvent' = "up" /\ ~IsNull(dragState) /\ IsNull(dragState')
       /\ (IsNull(dragState) /\ ~IsNull(dragState')) => mouseEvent' = "down"
       /\ mouseEvent' \in {"up", "leave"} => IsNull(dragState') /\ IsNull(dropTarget')
       /\ mouseEvent' = "leave" => callback'.name = "none"]_vars

\* A mouse-up has just called onItemMove with a target in another swimlane.
C27_Witness ==
    /\ mouseEvent = "up"
    /\ callback.name = "onItemMove"
    /\ callback.fromSwimlane # callback.toSwimlane
    /\ IsNull(dragState)
    /\ IsNull(dropTarget)

\* C28 as stated: every call of onItemResize has newLength >= 1 and
\* newStartIndex >= 0 and leaves the edge alone that is not dragged.
C28_ResizeArguments ==
    [][callback'.name = "onItemResize" =>
           /\ ~IsNull(dragState)
           /\ callback'.newLength >= 1
           /\ callback'.newStartIndex >= 0
           /\ dragState.mode = "resize-start" =>
                  callback'.newStartIndex + callback'.newLength = dragState.originalEndIndex
           /\ dragState.mode = "resize-end" =>
                  callback'.newStartIndex = dragState.originalStartIndex]_vars

\* C28, amended: every call of onItemResize has newLength >= 1 and leaves
\* the edge alone that is not dragged; newStartIndex >= 0 for resize-start,
\* and for resize-end newStartIndex is the original startIndex, whatever
\* its sign.
C28_ResizeKeepsOtherEdge ==
    [][callback'.name = "onItemResize" =>
           /\ ~IsNull(dragState)
           /\ callback'.newLength >= 1
           /\ dragState.mode = "resize-start" =>
                  /\ callback'.newStartIndex >= 0
                  /\ callback'.newStartIndex + callback'.newLength = dragState.originalEndIndex
           /\ dragState.mode = "resize-end" =>
                  callback'.newStartIndex = dragState.originalStartIndex]_vars

\* A resize has moved the start of an item to a later period, and a resize
\* of the end of the item that starts before the first period was reported.
C28_Witness ==
    /\ callback.name = "onItemResize"
    /\ callback.newStartIndex > 0
    /\ callback.newLength = 2

C28_WitnessNegativeStart ==
    /\ callback.name = "onItemResize"
    /\ callback.newStartIndex < 0

(***************************************************************************)
(* Properties of the layout.                                               *)
(***************************************************************************)
Rendered == "renderToSVG" \in called
Previewed == "InteractiveSVGPreview" \in called
Exported == "generateDrawioXml" \in called

Lanes == 1..Len(roadmap.swimlanes)

\* The number of rows the row packing uses, 1 for a swimlane without items.
RowsOfLane(l) ==
    LET used == Cardinality(RowsUsed(assignItemRows(roadmap.swimlanes[l].items)))
    IN  IF used = 0 THEN 1 ELSE used

\* The height of the swimlane cell of the diagram export.
ExportedHeight(l) ==
    LET p == CHOOSE q \in 1..Len(drawio) : drawio[q].kind = "swimlane" /\ drawio[q].of = l
    IN  drawio[p].height

\* Heights with below margins under the rows, in the three renderers.
HeightsAre(below) ==
    LET svgOpts == MergedOptions(DEFAULT_OPTIONS, options)
        previewOpts == MergedOptions(PREVIEW_DEFAULT_OPTIONS, options)
        Height(l, opts) ==
            Max2(opts.swimlaneHeight,
                 RowsOfLane(l) * (opts.itemHeight + opts.itemMargin) + below * opts.itemMargin)
    IN  /\ Rendered => \A l \in Lanes : svg.swimlaneHeights[l] = Height(l, svgOpts)
        /\ Previewed => \A l \in Lanes : preview.swimlaneHeights[l] = Height(l, previewOpts)
        /\ Exported =>
               \A l \in Lanes :
                   ExportedHeight(l) = Max2(80, RowsOfLane(l) * (30 + 10) + below * 10)

\* C17 as stated: the pixel height of a swimlane is
\* max(baseMinimumHeight, rowCount * (itemHeight + margin) + margin).
C17_OneMargin == HeightsAre(1)

\* C17: the pixel height of a swimlane is
\* max(swimlaneHeight, rowCount * (itemHeight + itemMargin) + 2 * itemMargin),
\* where rowCount is the number of rows the row packing uses for the
\* swimlane's items, and 1 for a swimlane without items; in the diagram
\* export the numbers are max(80, rowCount * (30 + 10) + 20).
C17_TwoMargins == HeightsAre(2)

C17_Witness ==
    /\ Rendered /\ Previewed /\ Exported
    /\ \E l \in Lanes :
           /\ RowsOfLane(l) = 2
           /\ svg.swimlaneHeights[l] = 104
           /\ preview.swimlaneHeights[l] = 104
           /\ ExportedHeight(l) = 100
    /\ \E l \in Lanes : roadmap.swimlanes[l].items = <<>>

\* The horizontal extents [x, x + width] of two rectangles share no point.
Disjoint(a, b) ==
    \/ NumLt(Add(a.x, a.width), b.x)
    \/ NumLt(Add(b.x, b.width), a.x)

\* C18: two items that the row packing places in the same row of one
\* swimlane get pixel rectangles whose horizontal extents [x, x + width] are
\* disjoint, in the SVG renderer and in the interactive preview, whatever the
\* layout options.
C18_AdjacentDisjoint ==
    /\ Rendered =>
           \A l \in Lanes :
               \A j, k \in 1..Len(svg.items[l]) :
                   (j # k /\ svg.items[l][j].row = svg.items[l][k].row)
                       => Disjoint(svg.items[l][j], svg.items[l][k])
    /\ Previewed =>
           \A a, b \in DOMAIN preview.itemPositions :
               (/\ a # b
                /\ preview.itemPositions[a].swimlaneId = preview.itemPositions[b].swimlaneId
                /\ preview.itemPositions[a].row = preview.itemPositions[b].row)
                   => Disjoint(preview.itemPositions[a], preview.itemPositions[b])

\* The rectangle the SVG renderer gives the element a cell was created for.
SvgRectOf(cell) ==
    CASE cell.kind = "period" -> svg.periods[cell.of]
      [] cell.kind = "swimlane" -> svg.swimlanes[cell.of]
      [] OTHER ->
           LET places == UNION {{<<l, k>> : k \in 1..Len(svg.items[l])} : l \in Lanes}
               at == CHOOSE a \in places : svg.items[a[1]][a[2]].id = cell.of
           IN  svg.items[at[1]][at[2]]

\* C19: for the same resolved roadmap, generateDrawioXml gives every period
\* header, swimlane label and item the same x, y, width and height as
\* renderToSVG does.
C19_SameGeometry ==
    (Rendered /\ Exported) =>
        \A p \in 1..Len(drawio) :
            /\ NumEq(Whole(drawio[p].x), SvgRectOf(drawio[p]).x)
            /\ drawio[p].y = SvgRectOf(drawio[p]).y
            /\ NumEq(Whole(drawio[p].width), SvgRectOf(drawio[p]).width)
            /\ drawio[p].height = SvgRectOf(drawio[p]).height

\* The periods, swimlanes and items of the roadmap, as the cells name them.
Elements ==
    {<<"period", i>> : i \in 1..Len(roadmap.timePeriods)}
        \cup {<<"swimlane", l>> : l \in Lanes}
        \cup UNION {{<<"item", roadmap.swimlanes[l].items[k].id>> :
                        k \in 1..Len(roadmap.swimlanes[l].items)} : l \in Lanes}

\* C20: generateDrawioXml emits exactly one node cell per time period, one
\* per swimlane and one per item, periods + swimlanes + items cells in
\* total, and the cell ids are pairwise distinct and never 0 or 1.
C20_CellsAndIds ==
    Exported =>
        /\ Len(drawio) = Cardinality(Elements)
        /\ \A e \in Elements :
               Cardinality({p \in 1..Len(drawio) : <<drawio[p].kind, drawio[p].of>> = e}) = 1
        /\ \A p, q \in 1..Len(drawio) : p # q => drawio[p].id # drawio[q].id
        /\ \A p \in 1..Len(drawio) : drawio[p].id \notin {0, 1}

C20_Witness ==
    /\ Exported
    /\ Len(roadmap.timePeriods) = 4
    /\ Len(roadmap.swimlanes) = 2
    /\ Len(roadmap.swimlanes[1].items) = 2
    /\ Len(roadmap.swimlanes[2].items) = 2
    /\ Len(drawio) = 10
    /\ {drawio[p].id : p \in 1..Len(drawio)} = 2..11

\* C26: in the SVG renderer every item rectangle lies inside the vertical
\* band of its own swimlane: its row is less than calculateItemRows(items),
\* its top is not above the band's top and its bottom is not below the
\* band's bottom; the first band starts under the header and every later
\* band starts where the one before ends.
C26_InsideBand ==
    Rendered =>
        /\ \A l \in Lanes :
               \A k \in 1..Len(svg.items[l]) :
                   /\ svg.items[l][k].row < calculateItemRows(roadmap.swimlanes[l].items)
                   /\ svg.items[l][k].y >= svg.swimlanes[l].y
                   /\ svg.items[l][k].y + svg.items[l][k].height
                          <= svg.swimlanes[l].y + svg.swimlanes[l].height
        /\ svg.swimlanes[1].y = MergedOptions(DEFAULT_OPTIONS, options).headerHeight
        /\ \A l \in Lanes \ {1} :
               svg.swimlanes[l].y = svg.swimlanes[l - 1].y + svg.swimlanes[l - 1].height

C26_Witness ==
    /\ Rendered
    /\ Len(roadmap.swimlanes) = 2
    /\ \E k \in 1..Len(svg.items[1]) :
           /\ svg.items[1][k].row = 1
           /\ svg.items[1][k].y + svg.items[1][k].height
                  = svg.swimlanes[1].y + svg.swimlanes[1].height
    /\ \E k \in 1..Len(svg.items[2]) : svg.items[2][k].row = 1
    /\ svg.swimlanes[2].y > svg.swimlanes[1].y

====
